---- MODULE Spec2Model ----
(***************************************************************************)
(* A model of the RailJS event bus (class Rail): the deep-clone engine,    *)
(* the listener registry, the module lifecycle and the synchronous and     *)
(* asynchronous emission engines, as a state machine over a JavaScript     *)
(* heap, a call stack and a job queue.                                     *)
(***************************************************************************)
EXTENDS Integers, Sequences, FiniteSets, TLC

(***************************************************************************)
(* Bounds of the model.                                                    *)
(***************************************************************************)
\* widest array / object of a payload drawn for the clone engine
MaxWidth == 2

(***************************************************************************)
(* JavaScript values.  A primitive carries its value; a reference carries  *)
(* the address of a heap node.  A heap is a sequence of nodes, the address *)
(* of a node being its index: allocation appends.                          *)
(***************************************************************************)
\* Every value, node and tree is a record of one shape, so that any two compare:
\* t the type tag, n a number, s and f strings, keys and items sequences.
Cell(t, n, s, f, keys, items) ==
    [t |-> t, n |-> n, s |-> s, f |-> f, keys |-> keys, items |-> items]

Num(n) == Cell("num", n, "", "", <<>>, <<>>)
Str(s) == Cell("str", 0, s, "", <<>>, <<>>)
Null == Cell("null", 0, "", "", <<>>, <<>>)
Undefined == Cell("undef", 0, "", "", <<>>, <<>>)
Ref(a) == Cell("ref", a, "", "", <<>>, <<>>)

\* typeof obj === 'object' && obj !== null
IsRef(x) == x.t = "ref"

\* heap nodes: a plain object holds keys[i]: items[i] in insertion order, an
\* array its items, a date its instant n, a regex its pattern s, flags f and
\* lastIndex n
ObjectNode(keys, items) == Cell("object", 0, "", "", keys, items)
ArrayNode(items) == Cell("array", 0, "", "", <<>>, items)
DateNode(time) == Cell("date", time, "", "", <<>>, <<>>)
RegExpNode(source, flags, lastIndex) == Cell("regexp", lastIndex, source, flags, <<>>, <<>>)

\* the result of an allocating computation: the heap after it and its value,
\* or the message e of the error it threw
Res(h, r) == [h |-> h, r |-> r, e |-> ""]

Raise(h, message) == [h |-> h, r |-> Undefined, e |-> message]

Alloc(h, node) == Res(Append(h, node), Ref(Len(h) + 1))

SeqRange(s) == {s[i] : i \in 1..Len(s)}

\* the addresses of the nodes reachable from a value
RECURSIVE Reach(_, _)
Reach(h, x) ==
    IF ~IsRef(x) THEN {}
    ELSE {x.n} \cup UNION {Reach(h, c) : c \in SeqRange(h[x.n].items)}

(***************************************************************************)
(* Rail._deepClone                                                         *)
(***************************************************************************)
RECURSIVE _deepClone(_, _)
RECURSIVE CloneItems(_, _, _)

\* this._deepClone(item) of obj.map, this._deepClone(obj[key]) of the for-in loop
CloneChild(h, item) == _deepClone(h, item)

\* the children cloned left to right, each in the heap its predecessors left,
\* up to the first that throws
CloneItems(h, items, acc) ==
    IF items = <<>> THEN Res(h, acc)
    ELSE LET c == CloneChild(h, Head(items))
         IN  IF c.e # "" THEN c ELSE CloneItems(c.h, Tail(items), Append(acc, c.r))

\* new Date(obj.getTime())
CloneDate(h, obj) == Alloc(h, DateNode(h[obj.n].n))

\* new RegExp(obj): the pattern and the flags of obj, lastIndex starting at 0
CloneRegExp(h, obj) == Alloc(h, RegExpNode(h[obj.n].s, h[obj.n].f, 0))

\* obj.map((item) => this._deepClone(item)): the new array exists before its items
CloneArray(h, obj) ==
    LET a == Alloc(h, ArrayNode(<<>>))
        c == CloneItems(a.h, h[obj.n].items, <<>>)
    IN  IF c.e # "" THEN c ELSE Res([c.h EXCEPT ![a.r.n] = ArrayNode(c.r)], a.r)

\* obj.hasOwnProperty(key) looks hasOwnProperty up on obj itself: an own
\* property of that name shadows Object.prototype.hasOwnProperty, and what a
\* payload holds there is data, which cannot be called
OwnKeyTest(h, obj) ==
    IF \E i \in 1..Len(h[obj.n].keys) : h[obj.n].keys[i] = "hasOwnProperty"
    THEN "TypeError" ELSE ""

\* cloned = {}, then for (const key in obj) if (obj.hasOwnProperty(key))
\* cloned[key] = this._deepClone(obj[key])
ClonePlain(h, obj) ==
    LET a == Alloc(h, ObjectNode(<<>>, <<>>))
        c == CloneItems(a.h, h[obj.n].items, <<>>)
    IN  IF OwnKeyTest(h, obj) # "" THEN Raise(a.h, OwnKeyTest(h, obj))
        ELSE IF c.e # "" THEN c
        ELSE Res([c.h EXCEPT ![a.r.n] = ObjectNode(h[obj.n].keys, c.r)], a.r)

_deepClone(h, obj) ==
    IF ~IsRef(obj) THEN Res(h, obj)
    ELSE CASE h[obj.n].t = "date" -> CloneDate(h, obj)
           [] h[obj.n].t = "array" -> CloneArray(h, obj)
           [] h[obj.n].t = "regexp" -> CloneRegExp(h, obj)
           [] OTHER -> ClonePlain(h, obj)

(***************************************************************************)
(* Payloads as trees, to enumerate inputs and to compare values.  A tree   *)
(* is a primitive value or a node whose items are trees.                   *)
(***************************************************************************)
Keys == <<"x", "y", "z">>

\* the keys of an object of the given width: ordinary ones, or the last of
\* them named as a method of Object.prototype
KeySeqs(n) ==
    IF n = 0 THEN {<<>>}
    ELSE {SubSeq(Keys, 1, n), Append(SubSeq(Keys, 1, n - 1), "hasOwnProperty")}

Prims == {Num(1), Str("a"), Cell("bool", 1, "", "", <<>>, <<>>), Null, Undefined}

Leaves == Prims \cup {DateNode(5), RegExpNode("ab", "g", 0), RegExpNode("ab", "g", 2)}

SeqsUpTo(S, n) == UNION {[1..m -> S] : m \in 0..n}

\* arrays and plain objects over the given children, at most MaxWidth wide
Containers(S) ==
    {ArrayNode(s) : s \in SeqsUpTo(S, MaxWidth)}
        \cup UNION {{ObjectNode(k, s) : k \in KeySeqs(Len(s))} : s \in SeqsUpTo(S, MaxWidth)}

\* payloads of depth at most 2; the deepest level is an array holding a date
\* or an object holding a number
Payloads ==
    Leaves \cup Containers(Leaves \cup {ArrayNode(<<DateNode(5)>>),
                                        ObjectNode(<<"x">>, <<Num(1)>>)})

\* the tree built in the heap, children first to last
RECURSIVE Build(_, _)
RECURSIVE BuildItems(_, _, _)
BuildItems(h, trees, acc) ==
    IF trees = <<>> THEN Res(h, acc)
    ELSE LET c == Build(h, Head(trees))
         IN  BuildItems(c.h, Tail(trees), Append(acc, c.r))

Build(h, t) ==
    IF t \in Prims THEN Res(h, t)
    ELSE LET c == BuildItems(h, t.items, <<>>)
         IN  Alloc(c.h, [t EXCEPT !.items = c.r])

\* the whole state of the structure under a value, lastIndex included
RECURSIVE Snapshot(_, _)
Snapshot(h, x) ==
    IF ~IsRef(x) THEN x
    ELSE [h[x.n] EXCEPT !.items = [i \in 1..Len(h[x.n].items) |-> Snapshot(h, h[x.n].items[i])]]

\* the value of the structure under a value: own keys and elements in order,
\* the instant of a date, the pattern and the flags of a regex
RECURSIVE ValueOf(_, _)
ValueOf(h, x) ==
    IF ~IsRef(x) THEN x
    ELSE [h[x.n] EXCEPT !.items = [i \in 1..Len(h[x.n].items) |-> ValueOf(h, h[x.n].items[i])],
                        !.n = IF h[x.n].t = "regexp" THEN 0 ELSE h[x.n].n]

(***************************************************************************)
(* Mutations a holder of a reference can make to the node it points to.    *)
(***************************************************************************)
NodeMutations(n) ==
    CASE n.t = "object" ->
            {[n EXCEPT !.keys = Append(n.keys, "w"), !.items = Append(n.items, Num(7))]}
                \cup {[n EXCEPT !.items[i] = Num(7)] : i \in 1..Len(n.items)}
      [] n.t = "array" ->
            {[n EXCEPT !.items = Append(n.items, Num(7))]}
                \cup {[n EXCEPT !.items[i] = Num(7)] : i \in 1..Len(n.items)}
      [] OTHER -> {[n EXCEPT !.n = n.n + 1]}

(***************************************************************************)
(* The bus.  JavaScript runs one call stack and a queue of jobs (promise   *)
(* reactions) that run when the stack is empty.  A call that cannot get a  *)
(* frame fails with a RangeError at the call site.  sig is the completion  *)
(* of the call that has just ended, for its caller to take.                *)
(***************************************************************************)
\* calls made on an idle bus in one run
MaxOps == 3
\* the same, in the runs where listeners fail and never call the bus
MaxFailureOps == 4
\* the same, in the runs that change the registry while it is dispatched
MaxRegistryOps == 4
\* the same, in the runs of the module lifecycle
MaxModuleOps == 4
\* the same, in the runs of emitAsync with handlers that settle in any order
MaxAsyncOps == 4
\* the same, in the runs of emit with listeners of 'e' that fail
MaxErrorOps == 4
\* the same, in the runs of waitFor
MaxWaitOps == 4
\* the same, in the runs with the introspection calls
MaxStatsOps == 4
\* emissions made before getHistory is called, and the largest limit but one
MaxHistory == 12
\* calls of on and emitAsync in the runs where every enabled step is taken
MaxLiveOps == 4
\* calls of on, emit, attach and detach in the runs of the module lifecycle
MaxLifeOps == 4
\* frames the engine's call stack holds
MaxStack == 6
\* listeners registered in one run
MaxListeners == 3

Events == {"e", "rail.error", "rail.module.attached", "rail.module.detached"}
EventOrder == <<"e", "rail.error", "rail.module.attached", "rail.module.detached">>
UserEvents == {"e", "rail.error"}
ModuleNames == {"m1", "anonymous"}

\* one listener array per registry entry and per emission in progress
NumArrays == Cardinality(Events) + MaxStack

\* Date.now(): the calls of a run fall into one millisecond
DateNow == 0

VARIABLES
    heap,               \* the JavaScript heap
    cl,                 \* the clone engine under test: payload, result, phase
    clone,              \* this.clone
    listeners,          \* this.listeners: event -> its listener array, 0 for no entry
    arrays,             \* the listener arrays, by identity
    listenerIdCounter,  \* this.listenerIdCounter
    modules,            \* this.modules: module name -> module object
    eventHistory,       \* this.eventHistory
    stack,              \* the call stack, innermost frame last
    sig,                \* completion of the call that just ended
    asyncCalls,         \* the emitAsync calls made: their handlers' promises
    jobs,               \* the job queue: continuations of the awaits, in order
    ops,                \* calls made on the idle bus so far
    top,                \* the call or job that runs or ran last on the empty stack
    configured,         \* the flag as last given by the constructor or setClone
    detached,           \* the listener records that detach calls filtered out
    waits,              \* the waitFor calls made: their timers and promises
    out,                \* what the last call of getHistory, getStats or getEvents returned
    finished            \* the emission that ended last in this turn: what it visited

vars == <<heap, cl, clone, listeners, arrays, listenerIdCounter, modules, eventHistory,
          stack, sig, asyncCalls, jobs, ops, top, configured, detached, waits,
          out, finished>>

\* completions: n is the value returned, p tells a returned promise ("" for a
\* plain value, else "fulfilled" or "rejected"), s the message of an error
NoSig == [k |-> "none", n |-> 0, p |-> "", s |-> ""]
Return(n) == [k |-> "return", n |-> n, p |-> "", s |-> ""]
ReturnPromise(p, message) == [k |-> "return", n |-> 0, p |-> p, s |-> message]
Throw(message) == [k |-> "throw", n |-> 0, p |-> "", s |-> message]
\* a bug: attach returns nothing
ReturnsNothing == Return(0)
\* return this: the bus itself
This == [k |-> "return", n |-> 0, p |-> "this", s |-> ""]

Listener(id, moduleName, callback) ==
    [id |-> id, module |-> moduleName, callback |-> callback]

Ids(arr) == [i \in 1..Len(arr) |-> arr[i].id]

NoFrame ==
    [op |-> "", pc |-> "", event |-> "", data |-> Undefined, timestamp |-> 0,
     aid |-> 0, len |-> 0, i |-> 0, handledCount |-> 0, module |-> "",
     originalClone |-> FALSE, arg |-> Undefined, lid |-> 0, callback |-> "",
     call |-> 0, unit |-> 0, error |-> "", name |-> "",
     forced |-> FALSE, snap |-> <<>>, invoked |-> <<>>, given |-> <<>>,
     pre |-> Undefined, hook |-> "none", hooks |-> 0, before |-> <<>>]

\* what an emission that ended had to visit and did visit
Finished(f, how) ==
    [event |-> f.event, how |-> how, snap |-> f.snap, invoked |-> f.invoked,
     failed |-> f.pc = "catch" /\ f.error = "boom"]

NoEmission == [event |-> "", how |-> "", snap |-> <<>>, invoked |-> <<>>, failed |-> FALSE]

Top == stack[Len(stack)]
Below == SubSeq(stack, 1, Len(stack) - 1)
SetTop(f) == [stack EXCEPT ![Len(stack)] = f]

(***************************************************************************)
(* The listener registry: this.listeners maps an event to an array object. *)
(* on() pushes onto the array in place; off() and detach() put a filtered  *)
(* copy in its place, the array itself staying as it was for whoever still *)
(* iterates it.                                                            *)
(***************************************************************************)
Referenced(l, stk) == {l[e] : e \in Events} \cup {stk[i].aid : i \in 1..Len(stk)}

\* a new array object: any identity nothing refers to
FreshArray(l, stk) == CHOOSE n \in 1..NumArrays :
    /\ n \notin Referenced(l, stk)
    /\ \A m \in 1..(n - 1) : m \in Referenced(l, stk)

\* the identity of the copy made by filter(): the array it replaces is garbage
\* unless an emission in progress iterates it
CopyOf(l, stk, event) ==
    IF \E i \in 1..Len(stk) : stk[i].aid = l[event] THEN FreshArray(l, stk) ELSE l[event]

\* arrays nothing refers to are garbage
Collect(l, a, stk) == [n \in 1..NumArrays |-> IF n \in Referenced(l, stk) THEN a[n] ELSE <<>>]

\* a bug: the new listener is put in front
Unshift(arr, listener) == <<listener>> \o arr

\* this.listeners.get(event).push({callback, module, id})
Push(arr, listener) == Append(arr, listener)

\* a bug: the id of a listener is its place in the list
onPlace(l, a, stk, event, callback, moduleName, listenerId) ==
    LET aid == IF l[event] = 0 THEN FreshArray(l, stk) ELSE l[event]
        arr == IF l[event] = 0 THEN <<>> ELSE a[aid]
    IN  [l |-> [l EXCEPT ![event] = aid],
         a |-> [a EXCEPT ![aid] = Push(arr, Listener(Len(arr) + 1, moduleName, callback))]]

\* Rail.on, after the check of the callback: the registry with the new listener
\* (whose id ++this.listenerIdCounter the caller draws)
on(l, a, stk, event, callback, moduleName, listenerId) ==
    LET aid == IF l[event] = 0 THEN FreshArray(l, stk) ELSE l[event]
        arr == IF l[event] = 0 THEN <<>> ELSE a[aid]
    IN  [l |-> [l EXCEPT ![event] = aid],
         a |-> [a EXCEPT ![aid] = Push(arr, Listener(listenerId, moduleName, callback))]]

\* a bug: the entry is set to the copy even when the copy is empty
FilteredKept(l, a, stk, event, filtered) ==
    LET aid == CopyOf(l, stk, event)
    IN  [l |-> [l EXCEPT ![event] = aid], a |-> [a EXCEPT ![aid] = filtered]]

\* listeners.filter(keep), then delete the entry or set it to the copy
Filtered(l, a, stk, event, filtered) ==
    IF filtered = <<>>
    THEN [l |-> [l EXCEPT ![event] = 0], a |-> a]
    ELSE LET aid == CopyOf(l, stk, event)
         IN  [l |-> [l EXCEPT ![event] = aid], a |-> [a EXCEPT ![aid] = filtered]]

\* a bug: off removes the oldest listener of the event, whatever the id
offFirst(l, a, stk, event, listenerId) ==
    IF l[event] = 0 THEN [l |-> l, a |-> a]
    ELSE Filtered(l, a, stk, event, Tail(a[l[event]]))

\* Rail.off: the registry afterwards; offResult is what it returns
off(l, a, stk, event, listenerId) ==
    IF l[event] = 0 THEN [l |-> l, a |-> a]
    ELSE Filtered(l, a, stk, event, SelectSeq(a[l[event]], LAMBDA x : x.id # listenerId))

\* a bug: off tells whether a listener of that id was in the list
offFound(l, a, event, listenerId) ==
    IF l[event] # 0 /\ \E x \in SeqRange(a[l[event]]) : x.id = listenerId THEN 1 ELSE 0

\* if (!listeners) return false; ... return true
offResult(l, a, event, listenerId) == IF l[event] = 0 THEN 0 ELSE 1

\* the registry as getEvents() walks it: event -> its listeners, in order
Registry(l, a) == [e \in Events |-> IF l[e] = 0 THEN <<>> ELSE a[l[e]]]

\* a bug: detach filters nothing out
removeNothing(l, a, stk, events, moduleName) == [l |-> l, a |-> a]

\* Rail.detach: for (const [event, listeners] of this.listeners) filter out the
\* listeners of the module, entry by entry
RECURSIVE removeModule(_, _, _, _, _)
removeModule(l, a, stk, events, moduleName) ==
    IF events = <<>> THEN [l |-> l, a |-> a]
    ELSE LET r == IF l[Head(events)] = 0 THEN [l |-> l, a |-> a]
                  ELSE Filtered(l, a, stk, Head(events),
                           SelectSeq(a[l[Head(events)]], LAMBDA x : x.module # moduleName))
         IN  removeModule(r.l, r.a, stk, Tail(events), moduleName)

(***************************************************************************)
(* Rail.emit and Rail.emitAsync                                            *)
(***************************************************************************)
\* a bug: the payload is handed over as it is, whatever the flag
EventDataShared(h, flag, data) == Res(h, data)

\* a bug: the payload is cloned, whatever the flag
EventDataCloned(h, flag, data) == _deepClone(h, data)

\* const eventData = this.clone ? this._deepClone(data) : data
EventData(h, flag, data) == IF flag THEN _deepClone(h, data) ELSE Res(h, data)

\* forEach and map visit the elements the array had when the loop began
Range(arr, len) == len

EmitFrame(h, op, event, data, forced) ==
    [NoFrame EXCEPT !.op = op, !.pc = "forEach", !.event = event, !.data = data,
                    !.timestamp = DateNow, !.aid = listeners[event],
                    !.len = IF listeners[event] = 0 THEN 0 ELSE Len(arrays[listeners[event]]),
                    !.i = 1, !.forced = forced, !.pre = Snapshot(h, data),
                    !.call = IF op = "emitAsync" THEN Len(asyncCalls) + 1 ELSE 0,
                    !.snap = IF listeners[event] = 0 THEN <<>> ELSE Ids(arrays[listeners[event]])]

\* a bug: the emissions the bus makes for 'rail.error' leave no history entry
CallEmitUnlogged(h, base, op, event, data, forced) ==
    IF Len(base) >= MaxStack
    THEN /\ stack' = base
         /\ sig' = Throw("RangeError")
         /\ UNCHANGED eventHistory
    ELSE /\ stack' = Append(base, EmitFrame(h, op, event, data, forced))
         /\ sig' = NoSig
         /\ eventHistory' = IF forced THEN eventHistory
                            ELSE Append(eventHistory,
                                     [event |-> event, data |-> data, timestamp |-> DateNow])

\* a call of emit or emitAsync from the frames base: the history entry, then
\* the listeners looked up; or a RangeError when the stack is full
CallEmit(h, base, op, event, data, forced) ==
    IF Len(base) >= MaxStack
    THEN /\ stack' = base
         /\ sig' = Throw("RangeError")
         /\ UNCHANGED eventHistory
    ELSE /\ stack' = Append(base, EmitFrame(h, op, event, data, forced))
         /\ sig' = NoSig
         /\ eventHistory' = Append(eventHistory,
                [event |-> event, data |-> data, timestamp |-> DateNow])

\* the emission has listeners left to visit
InLoop(f) == f.aid # 0 /\ f.i <= Range(arrays[f.aid], f.len)

\* listeners.forEach(({callback, module}) => { try { eventData = ...;
\* callback(eventData), and the same in the async function of listeners.map
Invoke ==
    /\ stack # <<>> /\ sig = NoSig
    /\ Top.op \in {"emit", "emitAsync"} /\ Top.pc = "forEach"
    /\ InLoop(Top)
    /\ LET f == Top
           listener == arrays[f.aid][f.i]
           d == EventData(heap, clone, f.data)
       IN  /\ heap' = d.h
           /\ IF d.e # ""
              THEN /\ stack' = SetTop([f EXCEPT !.pc = "callback", !.module = listener.module])
                   /\ sig' = Throw(d.e)
              ELSE IF Len(stack) >= MaxStack
              THEN /\ stack' = SetTop([f EXCEPT !.pc = "callback", !.module = listener.module])
                   /\ sig' = Throw("RangeError")
              ELSE /\ stack' = Append(
                        SetTop([f EXCEPT !.pc = "callback", !.module = listener.module,
                                         !.invoked = Append(@, listener.id),
                                         !.given = Append(@, [arg |-> d.r, cloned |-> clone])]),
                        [NoFrame EXCEPT !.op = "callback", !.pc = "start",
                                        !.lid = listener.id, !.module = listener.module,
                                        !.callback = listener.callback, !.arg = d.r])
                   /\ sig' = NoSig
    /\ UNCHANGED <<cl, clone, listeners, arrays, listenerIdCounter, modules, eventHistory,
                   asyncCalls, jobs, ops, top, configured, finished, detached, waits, out>>

\* the end of forEach: return handledCount
EmitReturn ==
    /\ stack # <<>> /\ sig = NoSig
    /\ Top.op = "emit" /\ Top.pc = "forEach"
    /\ ~InLoop(Top)
    /\ stack' = Below
    /\ sig' = Return(Top.handledCount)
    /\ arrays' = Collect(listeners, arrays, Below)
    /\ finished' = Finished(Top, "returned")
    /\ UNCHANGED <<heap, cl, clone, listeners, listenerIdCounter, modules, eventHistory,
                   asyncCalls, jobs, ops, top, configured, detached, waits, out>>

\* a bug: the listener that returned is not counted
NotCounted(handledCount) == handledCount

\* handledCount++
Counted(handledCount) == handledCount + 1

\* callback(eventData) returned: handledCount++.  A promise the callback
\* returned is dropped
Handled ==
    /\ stack # <<>> /\ sig.k = "return"
    /\ Top.op = "emit" /\ Top.pc = "callback"
    /\ stack' = SetTop([Top EXCEPT !.pc = "forEach", !.i = @ + 1,
                                 !.handledCount = Counted(@)])
    /\ sig' = NoSig
    /\ UNCHANGED <<heap, cl, clone, listeners, arrays, listenerIdCounter, modules,
                   eventHistory, asyncCalls, jobs, ops, top, configured, finished, detached, waits, out>>

\* a bug: the payload names 'rail.error' as the event that failed
ErrorDataBare(moduleName, event, message, timestamp) ==
    ObjectNode(<<"module", "event", "error", "timestamp">>,
               <<Str(moduleName), Str("rail.error"), Str(message), Num(timestamp)>>)

\* const errorData = {module, event, error: error.message, timestamp}
ErrorData(moduleName, event, message, timestamp) ==
    ObjectNode(<<"module", "event", "error", "timestamp">>,
               <<Str(moduleName), Str(event), Str(message), Num(timestamp)>>)

\* catch (error), in emit and in the async function of emitAsync when the
\* callback threw: errorData; originalClone = this.clone; this.clone = true;
\* this.emit('rail.error', errorData)
Catch ==
    /\ stack # <<>> /\ sig.k = "throw"
    /\ Top.op \in {"emit", "emitAsync"} /\ Top.pc = "callback"
    /\ LET e == Alloc(heap, ErrorData(Top.module, Top.event, sig.s, Top.timestamp))
       IN  /\ heap' = e.h
           /\ clone' = TRUE
           /\ CallEmit(e.h, SetTop([Top EXCEPT !.pc = "catch", !.originalClone = clone,
                                         !.error = sig.s]),
                       "emit", "rail.error", e.r, TRUE)
    /\ UNCHANGED <<cl, listeners, arrays, listenerIdCounter, modules, asyncCalls, jobs,
                   ops, top, configured, finished, detached, waits, out>>

\* this.clone = originalClone
Restore(flag, originalClone) == originalClone

\* the 'rail.error' emission returned: this.clone = originalClone, next listener
Restored ==
    /\ stack # <<>> /\ sig.k = "return"
    /\ Top.op = "emit" /\ Top.pc = "catch"
    /\ clone' = Restore(clone, Top.originalClone)
    /\ stack' = SetTop([Top EXCEPT !.pc = "forEach", !.i = @ + 1])
    /\ sig' = NoSig
    /\ UNCHANGED <<heap, cl, listeners, arrays, listenerIdCounter, modules, eventHistory,
                   asyncCalls, jobs, ops, top, configured, finished, detached, waits, out>>

\* an exception leaves the catch block: nothing in emit handles it
EmitThrows ==
    /\ stack # <<>> /\ sig.k = "throw"
    /\ Top.op = "emit" /\ Top.pc = "catch"
    /\ stack' = Below
    /\ arrays' = Collect(listeners, arrays, Below)
    /\ finished' = Finished(Top, "threw")
    /\ UNCHANGED <<heap, cl, clone, listeners, listenerIdCounter, modules, eventHistory,
                   sig, asyncCalls, jobs, ops, top, configured, detached, waits, out>>

(***************************************************************************)
(* emitAsync: each listener is mapped to an async function, run at once up *)
(* to its await; what follows the await is a job.  A unit is the promise   *)
(* of one such function.                                                   *)
(***************************************************************************)
\* status: "pending" while the promise the callback returned is and a timer
\* will settle it, "never" when nothing will, "awaiting"
\* with the continuation of the await queued, then "result", "error" or
\* "rejected"; late tells that a unit after this one had settled when the
\* result of this one arrived
Unit(moduleName, status, message) ==
    [module |-> moduleName, status |-> status, error |-> message, result |-> 0,
     late |-> FALSE]

\* listeners is what this.listeners.get(event) || [] gave the call
AsyncCall(event, timestamp) ==
    [event |-> event, timestamp |-> timestamp, units |-> <<>>, returned |-> FALSE,
     listeners |-> Registry(listeners, arrays)[event]]

\* a bug: the results are in the reverse of the registration order
AddUnitFirst(u) == [asyncCalls EXCEPT ![Top.call].units = <<u>> \o @]

\* the promise of Promise.all(promises): rejected with the first unit that
\* rejects, fulfilled once every unit is
PromiseState(c) ==
    IF \E u \in 1..Len(c.units) : c.units[u].status = "rejected" THEN "rejected"
    ELSE IF c.returned /\ \A u \in 1..Len(c.units) : c.units[u].status \in {"result", "error"}
         THEN "fulfilled"
         ELSE "pending"

AddUnit(u) == [asyncCalls EXCEPT ![Top.call].units = Append(@, u)]

\* const result = await callback(eventData): the callback returned, the
\* function waits for the value or for the promise to settle
Awaits ==
    /\ stack # <<>> /\ sig.k = "return"
    /\ Top.op = "emitAsync" /\ Top.pc = "callback"
    /\ asyncCalls' = AddUnit([Unit(Top.module, IF sig.p \in {"pending", "never"} THEN sig.p
                                                 ELSE "awaiting", "")
                                  EXCEPT !.result = sig.n])
    /\ jobs' = IF sig.p \in {"pending", "never"} THEN jobs
               ELSE Append(jobs, [call |-> Top.call,
                                  unit |-> Len(asyncCalls[Top.call].units) + 1,
                                  rejected |-> sig.p = "rejected", error |-> sig.s])
    /\ stack' = SetTop([Top EXCEPT !.pc = "forEach", !.i = @ + 1])
    /\ sig' = NoSig
    /\ UNCHANGED <<heap, cl, clone, listeners, arrays, listenerIdCounter, modules,
                   eventHistory, ops, top, configured, finished, detached, waits, out>>

\* the 'rail.error' emission of the catch block returned, the callback having
\* thrown before the await: this.clone = originalClone;
\* return {module, result: null, error: error.message}
AsyncRestored ==
    /\ stack # <<>> /\ sig.k = "return"
    /\ Top.op = "emitAsync" /\ Top.pc = "catch"
    /\ clone' = Restore(clone, Top.originalClone)
    /\ asyncCalls' = AddUnit(Unit(Top.module, "error", Top.error))
    /\ stack' = SetTop([Top EXCEPT !.pc = "forEach", !.i = @ + 1])
    /\ sig' = NoSig
    /\ UNCHANGED <<heap, cl, listeners, arrays, listenerIdCounter, modules, eventHistory,
                   jobs, ops, top, configured, finished, detached, waits, out>>

\* an exception leaves the catch block of the async function: its promise
\* rejects, and map goes on with the next listener
AsyncRejects ==
    /\ stack # <<>> /\ sig.k = "throw"
    /\ Top.op = "emitAsync" /\ Top.pc = "catch"
    /\ asyncCalls' = AddUnit(Unit(Top.module, "rejected", sig.s))
    /\ stack' = SetTop([Top EXCEPT !.pc = "forEach", !.i = @ + 1])
    /\ sig' = NoSig
    /\ UNCHANGED <<heap, cl, clone, listeners, arrays, listenerIdCounter, modules,
                   eventHistory, jobs, ops, top, configured, finished, detached, waits, out>>

\* the end of map: return await Promise.all(promises) hands the caller a promise
EmitAsyncReturn ==
    /\ stack # <<>> /\ sig = NoSig
    /\ Top.op = "emitAsync" /\ Top.pc = "forEach"
    /\ ~InLoop(Top)
    /\ asyncCalls' = [asyncCalls EXCEPT ![Top.call].returned = TRUE]
    /\ stack' = Below
    /\ sig' = ReturnPromise("pending", "")
    /\ arrays' = Collect(listeners, arrays, Below)
    /\ finished' = Finished(Top, "returned")
    /\ UNCHANGED <<heap, cl, clone, listeners, listenerIdCounter, modules, eventHistory,
                   jobs, ops, top, configured, detached, waits, out>>

\* a bug: emitAsync has a timeout, which settles the unit of a handler whose
\* promise nothing settles
TimerFiresTimeout ==
    /\ stack = <<>> /\ jobs = <<>>
    /\ \E c \in 1..Len(asyncCalls) : \E u \in 1..Len(asyncCalls[c].units) :
           /\ asyncCalls[c].units[u].status \in {"pending", "never"}
           /\ asyncCalls' = [asyncCalls EXCEPT ![c].units[u].status = "awaiting"]
           /\ jobs' = <<[call |-> c, unit |-> u, rejected |-> FALSE, error |-> ""]>>
    /\ sig' = NoSig
    /\ top' = "timer"
    /\ finished' = NoEmission
    /\ UNCHANGED <<heap, cl, clone, listeners, arrays, listenerIdCounter, modules,
                   eventHistory, stack, ops, configured, detached, waits, out>>

\* a timer fires, the job queue being empty: the promise a callback returned
\* is fulfilled, and the continuation of the await that waits for it is queued
TimerFires ==
    /\ stack = <<>> /\ jobs = <<>>
    /\ \E c \in 1..Len(asyncCalls) : \E u \in 1..Len(asyncCalls[c].units) :
           /\ asyncCalls[c].units[u].status = "pending"
           /\ asyncCalls' = [asyncCalls EXCEPT ![c].units[u].status = "awaiting"]
           /\ jobs' = <<[call |-> c, unit |-> u, rejected |-> FALSE, error |-> ""]>>
    /\ sig' = NoSig
    /\ top' = "timer"
    /\ finished' = NoEmission
    /\ UNCHANGED <<heap, cl, clone, listeners, arrays, listenerIdCounter, modules,
                   eventHistory, stack, ops, configured, detached, waits, out>>

\* a job: the awaited value arrived, return {module, result, error: null}
Resumes ==
    /\ stack = <<>> /\ jobs # <<>>
    /\ ~Head(jobs).rejected
    /\ asyncCalls' = [asyncCalls EXCEPT ![Head(jobs).call].units[Head(jobs).unit] =
                          [@ EXCEPT !.status = "result",
                                    !.late = \E u \in (Head(jobs).unit + 1)..
                                                       Len(asyncCalls[Head(jobs).call].units) :
                                                asyncCalls[Head(jobs).call].units[u].status
                                                    \in {"result", "error", "rejected"}]]
    /\ jobs' = Tail(jobs)
    /\ sig' = NoSig
    /\ top' = "job"
    /\ finished' = NoEmission
    /\ UNCHANGED <<heap, cl, clone, listeners, arrays, listenerIdCounter, modules,
                   eventHistory, stack, ops, configured, detached, waits, out>>

\* a job: the awaited promise rejected, the catch block of the async function
\* runs: errorData; originalClone = this.clone; this.clone = true;
\* this.emit('rail.error', errorData)
CatchesRejection ==
    /\ stack = <<>> /\ jobs # <<>>
    /\ Head(jobs).rejected
    /\ LET j == Head(jobs)
           c == asyncCalls[j.call]
           e == Alloc(heap, ErrorData(c.units[j.unit].module, c.event, j.error, c.timestamp))
       IN  /\ heap' = e.h
           /\ clone' = TRUE
           /\ CallEmit(e.h, <<[NoFrame EXCEPT !.op = "asyncCatch", !.pc = "catch",
                                         !.call = j.call, !.unit = j.unit,
                                         !.originalClone = clone, !.error = j.error]>>,
                       "emit", "rail.error", e.r, TRUE)
    /\ jobs' = Tail(jobs)
    /\ top' = "job"
    /\ finished' = NoEmission
    /\ UNCHANGED <<cl, listeners, arrays, listenerIdCounter, modules, asyncCalls, ops,
                   configured, detached, waits, out>>

\* the 'rail.error' emission of that catch block ended: with a return,
\* this.clone = originalClone; return {module, result: null, error}; with an
\* exception, the promise of the async function rejects
RejectionHandled ==
    /\ stack # <<>> /\ sig # NoSig
    /\ Top.op = "asyncCatch"
    /\ clone' = IF sig.k = "return" THEN Restore(clone, Top.originalClone) ELSE clone
    /\ asyncCalls' = [asyncCalls EXCEPT ![Top.call].units[Top.unit] =
                          IF sig.k = "return"
                          THEN [@ EXCEPT !.status = "error", !.error = Top.error]
                          ELSE [@ EXCEPT !.status = "rejected", !.error = sig.s]]
    /\ stack' = Below
    /\ sig' = NoSig
    /\ UNCHANGED <<heap, cl, listeners, arrays, listenerIdCounter, modules, eventHistory,
                   jobs, ops, top, configured, finished, detached, waits, out>>

(***************************************************************************)
(* Listener callbacks.  A callback is a function fixed when it is          *)
(* registered; the kinds below are what that function does with its        *)
(* argument and with the bus.                                              *)
(***************************************************************************)
InCallback(kind) ==
    /\ stack # <<>> /\ sig = NoSig
    /\ Top.op = "callback" /\ Top.pc = "start" /\ Top.callback = kind

\* the event of the emission that invoked the handler
Dispatching == stack[Len(stack) - 1].event

\* () => {}
HandlerReturns ==
    /\ InCallback("returns")
    /\ stack' = Below
    /\ sig' = Return(0)
    /\ UNCHANGED <<heap, cl, clone, listeners, arrays, listenerIdCounter, modules,
                   eventHistory, asyncCalls, jobs, ops, top, configured, finished, detached, waits, out>>

\* () => { throw new Error('boom') }
HandlerThrows ==
    /\ InCallback("throws")
    /\ stack' = Below
    /\ sig' = Throw("boom")
    /\ UNCHANGED <<heap, cl, clone, listeners, arrays, listenerIdCounter, modules,
                   eventHistory, asyncCalls, jobs, ops, top, configured, finished, detached, waits, out>>

\* async () => { throw new Error('boom') }: a promise that rejects
HandlerRejects ==
    /\ InCallback("rejects")
    /\ stack' = Below
    /\ sig' = ReturnPromise("rejected", "boom")
    /\ UNCHANGED <<heap, cl, clone, listeners, arrays, listenerIdCounter, modules,
                   eventHistory, asyncCalls, jobs, ops, top, configured, finished, detached, waits, out>>

\* async () => { await new Promise((resolve) => setTimeout(resolve, ms));
\* return 'result<id>' }: a promise that is pending, each handler's own value
HandlerWaits ==
    /\ InCallback("waits")
    /\ stack' = Below
    /\ sig' = [ReturnPromise("pending", "") EXCEPT !.n = Top.lid]
    /\ UNCHANGED <<heap, cl, clone, listeners, arrays, listenerIdCounter, modules,
                   eventHistory, asyncCalls, jobs, ops, top, configured, finished, detached, waits, out>>

\* () => new Promise(() => {}): a promise that nothing ever settles
HandlerHangs ==
    /\ InCallback("hangs")
    /\ stack' = Below
    /\ sig' = ReturnPromise("never", "")
    /\ UNCHANGED <<heap, cl, clone, listeners, arrays, listenerIdCounter, modules,
                   eventHistory, asyncCalls, jobs, ops, top, configured, finished, detached, waits, out>>

\* (data) => { data.x = 7; data.y[0] = 7 }: writes all over the structure given
HandlerMutates ==
    /\ InCallback("mutates")
    /\ heap' = [a \in 1..Len(heap) |->
                    IF a \in Reach(heap, Top.arg) /\ heap[a].items # <<>>
                    THEN [heap[a] EXCEPT !.items[1] = Num(7)] ELSE heap[a]]
    /\ stack' = Below
    /\ sig' = Return(0)
    /\ UNCHANGED <<cl, clone, listeners, arrays, listenerIdCounter, modules, eventHistory,
                   asyncCalls, jobs, ops, top, configured, finished, detached, waits, out>>

\* Rail.setClone
setClone(enabled) ==
    /\ clone' = enabled
    /\ configured' = enabled

\* () => rail.setClone(false)
HandlerSetsClone ==
    /\ InCallback("setsCloneOff")
    /\ setClone(FALSE)
    /\ stack' = Below
    /\ sig' = Return(0)
    /\ UNCHANGED <<heap, cl, listeners, arrays, listenerIdCounter, modules, eventHistory,
                   asyncCalls, jobs, ops, top, finished, detached, waits, out>>

\* () => { if (n < max) rail.on(event, () => {}) }, for the event being dispatched
HandlerListens ==
    /\ InCallback("listens")
    /\ IF listenerIdCounter < MaxListeners
       THEN LET r == on(listeners, arrays, Below, Dispatching, "returns", "anonymous",
                        listenerIdCounter + 1)
            IN  /\ listeners' = r.l
                /\ arrays' = r.a
                /\ listenerIdCounter' = listenerIdCounter + 1
       ELSE UNCHANGED <<listeners, arrays, listenerIdCounter>>
    /\ stack' = Below
    /\ sig' = Return(0)
    /\ UNCHANGED <<heap, cl, clone, modules, eventHistory, asyncCalls, jobs, ops, top,
                   configured, finished, detached, waits, out>>

\* () => rail.off(event, id), or an unsubscribe function: some listener of the
\* event being dispatched (the handler's own included) is removed; with no
\* list left for the event, off returns false and changes nothing
HandlerUnlistens ==
    /\ InCallback("unlistens")
    /\ IF listeners[Dispatching] = 0
       THEN UNCHANGED <<listeners, arrays>>
       ELSE \E id \in SeqRange(Ids(arrays[listeners[Dispatching]])) :
                LET r == off(listeners, arrays, Below, Dispatching, id)
                IN  /\ listeners' = r.l
                    /\ arrays' = Collect(r.l, r.a, Below)
    /\ stack' = Below
    /\ sig' = Return(0)
    /\ UNCHANGED <<heap, cl, clone, listenerIdCounter, modules, eventHistory, asyncCalls,
                   jobs, ops, top, configured, finished, detached, waits, out>>

\* (data) => rail.emit('e', data)
HandlerEmits ==
    /\ InCallback("emits")
    /\ CallEmit(heap, SetTop([Top EXCEPT !.pc = "called"]), "emit", "e", Top.arg, FALSE)
    /\ UNCHANGED <<heap, cl, clone, listeners, arrays, listenerIdCounter, modules,
                   asyncCalls, jobs, ops, top, configured, finished, detached, waits, out>>

\* the call a handler made has ended: the handler returns, or the exception
\* goes through it
HandlerResumes ==
    /\ stack # <<>> /\ sig # NoSig
    /\ Top.op = "callback" /\ Top.pc = "called"
    /\ stack' = Below
    /\ sig' = IF sig.k = "throw" THEN sig ELSE Return(0)
    /\ UNCHANGED <<heap, cl, clone, listeners, arrays, listenerIdCounter, modules,
                   eventHistory, asyncCalls, jobs, ops, top, configured, finished, detached, waits, out>>

(***************************************************************************)
(* Rail.attach and Rail.detach.  A module object has a name and may have   *)
(* a connect and a disconnect hook; a hook is a function, of the kinds     *)
(* below.                                                                  *)
(***************************************************************************)

\* what a call of attach or detach finds: the registry, the names getModules()
\* gives and the history
Before ==
    [registry |-> Registry(listeners, arrays),
     modules |-> {name \in ModuleNames : modules[name].attached},
     history |-> eventHistory]

Module(name, connect, disconnect) ==
    [attached |-> TRUE, name |-> name, connect |-> connect, disconnect |-> disconnect]

NoModule == [attached |-> FALSE, name |-> "", connect |-> "none", disconnect |-> "none"]

\* a bug: the hook is never called
SkipHook(base, name, hook) ==
    /\ stack' = base
    /\ sig' = Return(0)

\* a call of a hook from the frames base, if the module has it
CallHook(base, name, hook) ==
    IF hook = "none"
    THEN /\ stack' = base
         /\ sig' = Return(0)
    ELSE IF Len(base) >= MaxStack
         THEN /\ stack' = base
              /\ sig' = Throw("RangeError")
         ELSE /\ stack' = Append(base, [NoFrame EXCEPT !.op = "hook", !.pc = "start",
                                                        !.name = name, !.callback = hook])
              /\ sig' = NoSig

\* the frames below the hook, its caller having seen the hook run once more
HookRan == [Below EXCEPT ![Len(Below)].hooks = @ + 1]

InHook(kinds) ==
    /\ stack # <<>> /\ sig = NoSig
    /\ Top.op = "hook" /\ Top.callback \in kinds

\* connect(rail) {} and disconnect(rail) {}
HookReturns ==
    /\ InHook({"returns"})
    /\ stack' = HookRan
    /\ sig' = Return(0)
    /\ UNCHANGED <<heap, cl, clone, listeners, arrays, listenerIdCounter, modules,
                   eventHistory, asyncCalls, jobs, ops, top, configured, finished, detached, waits, out>>

\* connect(rail) { throw ... } and disconnect(rail) { throw ... }
HookThrows ==
    /\ InHook({"throws"})
    /\ stack' = HookRan
    /\ sig' = Throw("boom")
    /\ UNCHANGED <<heap, cl, clone, listeners, arrays, listenerIdCounter, modules,
                   eventHistory, asyncCalls, jobs, ops, top, configured, finished, detached, waits, out>>

\* connect(rail) { rail.on('e', () => {}, this.name) }, the same followed by
\* a throw, and the same for 'rail.module.attached' and 'rail.module.detached';
\* a disconnect hook may do the same
HookListens ==
    /\ InHook({"listens", "listensThrows", "listensAttached", "listensDetached"})
    /\ IF listenerIdCounter < MaxListeners
       THEN LET event == IF Top.callback = "listensAttached" THEN "rail.module.attached"
                         ELSE IF Top.callback = "listensDetached"
                              THEN "rail.module.detached"
                              ELSE "e"
                r == on(listeners, arrays, Below, event, "returns", Top.name,
                        listenerIdCounter + 1)
            IN  /\ listeners' = r.l
                /\ arrays' = r.a
                /\ listenerIdCounter' = listenerIdCounter + 1
       ELSE UNCHANGED <<listeners, arrays, listenerIdCounter>>
    /\ stack' = HookRan
    /\ sig' = IF Top.callback = "listensThrows" THEN Throw("boom") ELSE Return(0)
    /\ UNCHANGED <<heap, cl, clone, modules, eventHistory, asyncCalls, jobs, ops, top,
                   configured, finished, detached, waits, out>>

\* {moduleName}
ModulePayload(name) == ObjectNode(<<"moduleName">>, <<Str(name)>>)

\* connect returned, or there is none: this.emit('rail.module.attached', ...)
Attached ==
    /\ stack # <<>> /\ sig.k = "return"
    /\ Top.op = "attach" /\ Top.pc = "connect"
    /\ LET p == Alloc(heap, ModulePayload(Top.name))
       IN  /\ heap' = p.h
           /\ CallEmit(p.h, SetTop([Top EXCEPT !.pc = "emit"]), "emit", "rail.module.attached",
                       p.r, FALSE)
    /\ UNCHANGED <<cl, clone, listeners, arrays, listenerIdCounter, modules, asyncCalls,
                   jobs, ops, top, configured, finished, detached, waits, out>>

\* a bug: the message of the underlying error is left out
ConnectionFailedBare(name, message) == "Failed to connect module '" \o name \o "'"

\* `Failed to connect module '${module.name}': ${error.message}`
ConnectionFailed(name, message) ==
    "Failed to connect module '" \o name \o "': " \o message

\* connect threw: this.modules.delete(module.name); throw new Error(...)
AttachFails ==
    /\ stack # <<>> /\ sig.k = "throw"
    /\ Top.op = "attach" /\ Top.pc = "connect"
    /\ modules' = [modules EXCEPT ![Top.name] = NoModule]
    /\ stack' = Below
    /\ sig' = Throw(ConnectionFailed(Top.name, sig.s))
    /\ UNCHANGED <<heap, cl, clone, listeners, arrays, listenerIdCounter, eventHistory,
                   asyncCalls, jobs, ops, top, configured, finished, detached, waits, out>>

\* the emission ended: return this, or the exception of emit goes through
AttachReturns ==
    /\ stack # <<>> /\ sig # NoSig
    /\ Top.op = "attach" /\ Top.pc = "emit"
    /\ stack' = Below
    /\ sig' = IF sig.k = "throw" THEN sig ELSE This
    /\ UNCHANGED <<heap, cl, clone, listeners, arrays, listenerIdCounter, modules,
                   eventHistory, asyncCalls, jobs, ops, top, configured, finished, detached, waits, out>>

\* a bug: the listeners are filtered out before the module is looked up
DetachUnchecked(base, moduleName) ==
    LET r == removeModule(listeners, arrays, base, EventOrder, moduleName)
    IN  /\ listeners' = r.l
        /\ arrays' = Collect(r.l, r.a, base)
        /\ UNCHANGED detached
        /\ IF ~modules[moduleName].attached
           THEN /\ stack' = base
                /\ sig' = Return(0)
           ELSE CallHook(Append(base, [NoFrame EXCEPT !.op = "detach", !.pc = "disconnect",
                                                     !.name = moduleName,
                                                     !.hook = modules[moduleName].disconnect,
                                                     !.before = Before]),
                         moduleName, modules[moduleName].disconnect)

\* a call of detach from the frames base: false if the module is not attached,
\* else its listeners are filtered out and its disconnect hook is called
CallDetach(base, moduleName) ==
    IF Len(base) >= MaxStack
    THEN /\ stack' = base
         /\ sig' = Throw("RangeError")
         /\ UNCHANGED <<listeners, arrays, detached, waits, out>>
    ELSE IF ~modules[moduleName].attached
         THEN /\ stack' = base
              /\ sig' = Return(0)
              /\ UNCHANGED <<listeners, arrays, detached, waits, out>>
         ELSE LET r == removeModule(listeners, arrays, base, EventOrder, moduleName)
                  module == modules[moduleName]
              IN  /\ listeners' = r.l
                  /\ arrays' = Collect(r.l, r.a, base)
                  /\ detached' = detached \cup
                         {x \in UNION {SeqRange(Registry(listeners, arrays)[e]) : e \in Events} :
                              x.module = moduleName}
                  /\ CallHook(Append(base, [NoFrame EXCEPT !.op = "detach",
                                                           !.pc = "disconnect",
                                                           !.name = moduleName,
                                                           !.hook = module.disconnect,
                                                           !.before = Before]),
                              moduleName, module.disconnect)

\* a bug: detach ends with disconnect, whose exception goes through
DisconnectedAborts ==
    /\ stack # <<>> /\ sig # NoSig
    /\ Top.op = "detach" /\ Top.pc = "disconnect"
    /\ stack' = Below
    /\ sig' = IF sig.k = "throw" THEN sig ELSE Return(1)
    /\ UNCHANGED <<heap, cl, clone, listeners, arrays, listenerIdCounter, modules,
                   eventHistory, asyncCalls, jobs, ops, top, configured, finished, detached, waits, out>>

\* a bug: the module is still in the table when the notification is delivered
DisconnectedKeeps ==
    /\ stack # <<>> /\ sig # NoSig
    /\ Top.op = "detach" /\ Top.pc = "disconnect"
    /\ LET p == Alloc(heap, ModulePayload(Top.name))
       IN  /\ heap' = p.h
           /\ CallEmit(p.h, SetTop([Top EXCEPT !.pc = "emit"]), "emit", "rail.module.detached",
                       p.r, FALSE)
    /\ UNCHANGED <<cl, clone, listeners, arrays, listenerIdCounter, modules, asyncCalls,
                   jobs, ops, top, configured, finished, detached, waits, out>>

\* disconnect returned or threw (the error is logged), or there is none:
\* this.modules.delete(moduleName); this.emit('rail.module.detached', ...)
Disconnected ==
    /\ stack # <<>> /\ sig # NoSig
    /\ Top.op = "detach" /\ Top.pc = "disconnect"
    /\ modules' = [modules EXCEPT ![Top.name] = NoModule]
    /\ LET p == Alloc(heap, ModulePayload(Top.name))
       IN  /\ heap' = p.h
           /\ CallEmit(p.h, SetTop([Top EXCEPT !.pc = "emit"]), "emit", "rail.module.detached",
                       p.r, FALSE)
    /\ UNCHANGED <<cl, clone, listeners, arrays, listenerIdCounter, asyncCalls, jobs, ops,
                   top, configured, finished, detached, waits, out>>

\* the emission ended: return true, or the exception of emit goes through
DetachReturns ==
    /\ stack # <<>> /\ sig # NoSig
    /\ Top.op = "detach" /\ Top.pc = "emit"
    /\ stack' = Below
    /\ sig' = IF sig.k = "throw" THEN sig ELSE Return(1)
    /\ UNCHANGED <<heap, cl, clone, listeners, arrays, listenerIdCounter, modules,
                   eventHistory, asyncCalls, jobs, ops, top, configured, finished, detached, waits, out>>

\* () => rail.detach('m1')
HandlerDetaches ==
    /\ InCallback("detaches")
    /\ CallDetach(SetTop([Top EXCEPT !.pc = "called"]), "m1")
    /\ UNCHANGED <<heap, cl, clone, listenerIdCounter, modules, eventHistory, asyncCalls,
                   jobs, ops, top, configured, finished, waits, out>>
(***************************************************************************)
(* Calls made on the idle bus.                                             *)
(***************************************************************************)
Idle == stack = <<>> /\ ops > 0

\* a new turn of the event loop begins with the call
Turn(name) ==
    /\ ops' = ops - 1
    /\ top' = name
    /\ finished' = NoEmission

\* rail.on(event, callback), the callback being a function
On(events, callbacks) ==
    /\ Idle
    /\ listenerIdCounter < MaxListeners
    /\ \E event \in events : \E callback \in callbacks :
           LET r == on(listeners, arrays, stack, event, callback, "anonymous",
                       listenerIdCounter + 1)
           IN  /\ listeners' = r.l
               /\ arrays' = r.a
    /\ listenerIdCounter' = listenerIdCounter + 1
    /\ sig' = Return(listenerIdCounter + 1)
    /\ Turn("on")
    /\ UNCHANGED <<heap, cl, clone, modules, eventHistory, stack, asyncCalls, jobs,
                   configured, detached, waits, out>>

\* what typeof gives for a callback that is no function: undefined, null or
\* an object, a number, a string
NotFunctions == {"undefined", "object", "number", "string"}

\* a bug: the list of the event is created before the callback is checked
OnInvalidCreates(events) ==
    /\ Idle
    /\ \E event \in events : \E callback \in NotFunctions :
           listeners' = [listeners EXCEPT ![event] =
                             IF @ = 0 THEN FreshArray(listeners, stack) ELSE @]
    /\ sig' = Throw("Callback must be a function")
    /\ Turn("on")
    /\ UNCHANGED <<heap, cl, clone, arrays, listenerIdCounter, modules, eventHistory, stack,
                   asyncCalls, jobs, configured, detached, waits, out>>

\* rail.on(event, callback) with a callback that is no function:
\* if (typeof callback !== 'function') throw new Error('Callback must be a function')
OnInvalid(events) ==
    /\ Idle
    /\ \E event \in events : \E callback \in NotFunctions : callback # "function"
    /\ sig' = Throw("Callback must be a function")
    /\ Turn("on")
    /\ UNCHANGED <<heap, cl, clone, listeners, arrays, listenerIdCounter, modules,
                   eventHistory, stack, asyncCalls, jobs, configured, detached, waits, out>>

\* rail.on(event, callback, moduleName)
OnModule(events, callbacks, names) ==
    /\ Idle
    /\ listenerIdCounter < MaxListeners
    /\ \E event \in events : \E callback \in callbacks : \E moduleName \in names :
           LET r == on(listeners, arrays, stack, event, callback, moduleName,
                       listenerIdCounter + 1)
           IN  /\ listeners' = r.l
               /\ arrays' = r.a
    /\ listenerIdCounter' = listenerIdCounter + 1
    /\ sig' = Return(listenerIdCounter + 1)
    /\ Turn("on")
    /\ UNCHANGED <<heap, cl, clone, modules, eventHistory, stack, asyncCalls, jobs,
                   configured, detached, waits, out>>

\* rail.off(event, listenerId)
OffIds(events, ids) ==
    /\ Idle
    /\ \E event \in events : \E id \in ids :
           LET r == off(listeners, arrays, stack, event, id)
           IN  /\ listeners' = r.l
               /\ arrays' = Collect(r.l, r.a, stack)
               /\ sig' = Return(offResult(listeners, arrays, event, id))
    /\ Turn("off")
    /\ UNCHANGED <<heap, cl, clone, listenerIdCounter, modules, eventHistory, stack,
                   asyncCalls, jobs, configured, detached, waits, out>>

\* rail.off(event, listenerId) with an id that on() has issued, or the
\* unsubscribe function on() returned
Off(events) == OffIds(events, 1..listenerIdCounter)

\* the payload of an emission: {x: 0, y: [1]}
NewPayload(h) ==
    LET y == Alloc(h, ArrayNode(<<Num(1)>>))
    IN  Alloc(y.h, ObjectNode(<<"x", "y">>, <<Num(0), y.r>>))

\* rail.emit(event, data)
Emit(events) ==
    /\ Idle
    /\ \E event \in events :
           LET p == NewPayload(heap)
           IN  /\ heap' = p.h
               /\ CallEmit(p.h, stack, "emit", event, p.r, FALSE)
    /\ Turn("emit")
    /\ UNCHANGED <<cl, clone, listeners, arrays, listenerIdCounter, modules, asyncCalls,
                   jobs, configured, detached, waits, out>>

\* rail.emitAsync(event, data)
EmitAsync(events) ==
    /\ Idle
    /\ \E event \in events :
           LET p == NewPayload(heap)
           IN  /\ heap' = p.h
               /\ asyncCalls' = Append(asyncCalls, AsyncCall(event, DateNow))
               /\ CallEmit(p.h, stack, "emitAsync", event, p.r, FALSE)
    /\ Turn("emitAsync")
    /\ UNCHANGED <<cl, clone, listeners, arrays, listenerIdCounter, modules, jobs,
                   configured, detached, waits, out>>

\* rail.clearHistory(): this.eventHistory = []
ClearHistory ==
    /\ Idle
    /\ eventHistory' = <<>>
    /\ sig' = Return(0)
    /\ Turn("clearHistory")
    /\ UNCHANGED <<heap, cl, clone, listeners, arrays, listenerIdCounter, modules, stack,
                   asyncCalls, jobs, configured, detached, waits, out>>

RECURSIVE Reduce(_, _, _)
\* Array.from(this.listeners.values()).reduce((sum, listeners) =>
\*     sum + listeners.length, 0), over the events that have an entry
Reduce(l, a, order) ==
    IF order = <<>> THEN 0
    ELSE (IF l[Head(order)] = 0 THEN 0 ELSE Len(a[l[Head(order)]]))
         + Reduce(l, a, Tail(order))

\* a bug: totalListeners is the number of listeners ever created
getStatsCreated(l, a, m, history, counter) ==
    [modules |-> Cardinality({name \in ModuleNames : m[name].attached}),
     events |-> Cardinality({e \in Events : l[e] # 0}),
     totalListeners |-> counter,
     eventsEmitted |-> Len(history)]

\* getStats(): the sizes of the two maps, the sum of the lists' lengths and
\* the length of the history
getStats(l, a, m, history, counter) ==
    [modules |-> Cardinality({name \in ModuleNames : m[name].attached}),
     events |-> Cardinality({e \in Events : l[e] # 0}),
     totalListeners |-> Reduce(l, a, EventOrder),
     eventsEmitted |-> Len(history)]

\* getEvents(): events[event] = listeners.map((l) => l.module), for each entry
\* of the registry
getEvents(l, a) ==
    [e \in {e \in Events : l[e] # 0} |-> [i \in 1..Len(a[l[e]]) |-> a[l[e]][i].module]]

\* rail.getStats()
GetStats ==
    /\ Idle
    /\ out' = [op |-> "getStats", arg |-> Undefined,
               value |-> <<getStats(listeners, arrays, modules, eventHistory,
                                    listenerIdCounter)>>,
               at |-> Len(eventHistory)]
    /\ sig' = Return(0)
    /\ Turn("getStats")
    /\ UNCHANGED <<heap, cl, clone, listeners, arrays, listenerIdCounter, modules,
                   eventHistory, stack, asyncCalls, jobs, configured, detached, waits>>

\* rail.getEvents()
GetEvents ==
    /\ Idle
    /\ out' = [op |-> "getEvents", arg |-> Undefined,
               value |-> <<getEvents(listeners, arrays)>>, at |-> Len(eventHistory)]
    /\ sig' = Return(0)
    /\ Turn("getEvents")
    /\ UNCHANGED <<heap, cl, clone, listeners, arrays, listenerIdCounter, modules,
                   eventHistory, stack, asyncCalls, jobs, configured, detached, waits>>

\* Array.prototype.slice(start): a negative start counts from the end, and
\* -0 is 0
slice(arr, start) ==
    LET k == IF start < 0 THEN (IF Len(arr) + start < 0 THEN 0 ELSE Len(arr) + start)
             ELSE (IF start > Len(arr) THEN Len(arr) ELSE start)
    IN  SubSeq(arr, k + 1, Len(arr))

\* getHistory(limit = 10) { return this.eventHistory.slice(-limit) }
getHistory(history, limit) ==
    slice(history, 0 - (IF limit = Undefined THEN 10 ELSE limit.n))

\* rail.getHistory(limit), and rail.getHistory()
GetHistory(limits) ==
    /\ Idle
    /\ \E limit \in limits :
           out' = [op |-> "getHistory", arg |-> limit,
                   value |-> getHistory(eventHistory, limit), at |-> Len(eventHistory)]
    /\ sig' = Return(0)
    /\ Turn("getHistory")
    /\ UNCHANGED <<heap, cl, clone, listeners, arrays, listenerIdCounter, modules,
                   eventHistory, stack, asyncCalls, jobs, configured, detached, waits>>

\* rail.setClone(enabled)
SetClone ==
    /\ Idle
    /\ \E enabled \in BOOLEAN : setClone(enabled)
    /\ sig' = Return(0)
    /\ Turn("setClone")
    /\ UNCHANGED <<heap, cl, listeners, arrays, listenerIdCounter, modules, eventHistory,
                   stack, asyncCalls, jobs, detached, waits, out>>

\* rail.attach(module), no module of that name being attached:
\* this.modules.set(module.name, module), then connect if it is a function
Attach(names, connects, disconnects) ==
    /\ Idle
    /\ \E name \in names : \E connect \in connects : \E disconnect \in disconnects :
           /\ ~modules[name].attached
           /\ modules' = [modules EXCEPT ![name] = Module(name, connect, disconnect)]
           /\ CallHook(<<[NoFrame EXCEPT !.op = "attach", !.pc = "connect", !.name = name,
                                         !.hook = connect, !.before = Before]>>,
                       name, connect)
    /\ Turn("attach")
    /\ UNCHANGED <<heap, cl, clone, listeners, arrays, listenerIdCounter, eventHistory,
                   asyncCalls, jobs, configured, detached, waits, out>>

\* a bug: a module whose name is taken replaces the module attached
AttachReplaces(names) ==
    /\ Idle
    /\ \E name \in names :
           /\ modules[name].attached
           /\ modules' = [modules EXCEPT ![name] = Module(name, "none", "none")]
    /\ sig' = Return(0)
    /\ Turn("attach")
    /\ UNCHANGED <<heap, cl, clone, listeners, arrays, listenerIdCounter, eventHistory,
                   stack, asyncCalls, jobs, configured, detached, waits, out>>

\* rail.attach(module), the name being taken: throw new Error(... already attached)
AttachDuplicate(names) ==
    /\ Idle
    /\ \E name \in names : modules[name].attached
    /\ sig' = Throw("already attached")
    /\ Turn("attach")
    /\ UNCHANGED <<heap, cl, clone, listeners, arrays, listenerIdCounter, modules,
                   eventHistory, stack, asyncCalls, jobs, configured, detached, waits, out>>

\* values that are no modules, each by whether it is truthy, its typeof and
\* its name property: null, undefined, a number, a function, and objects
\* named undefined, '', a number and null
InvalidModules ==
    [truthy : {FALSE}, typeof : {"object", "undefined"}, name : {Undefined}]
        \cup [truthy : {TRUE}, typeof : {"number"}, name : {Undefined}]
        \cup [truthy : {TRUE}, typeof : {"function"}, name : {Str("m1")}]
        \cup [truthy : {TRUE}, typeof : {"object"},
               name : {Undefined, Str(""), Num(1), Null}]

\* the checks attach begins with: the message of the error thrown, "" for none
attachError(mods, module) ==
    IF ~module.truthy \/ module.typeof # "object" THEN "Module must be an object"
    ELSE IF module.name \in {Undefined, Null, Str(""), Num(0)} \/ module.name.t # "str"
         THEN "Module must have a name property"
         ELSE IF mods[module.name.s].attached THEN "already attached" ELSE ""

\* rail.attach(module) with a value that is no module
AttachInvalid ==
    /\ Idle
    /\ \E module \in InvalidModules :
           /\ attachError(modules, module) # ""
           /\ sig' = Throw(attachError(modules, module))
    /\ Turn("attach")
    /\ UNCHANGED <<heap, cl, clone, listeners, arrays, listenerIdCounter, modules,
                   eventHistory, stack, asyncCalls, jobs, configured, detached, waits, out>>

\* rail.detach(moduleName)
Detach(names) ==
    /\ Idle
    /\ \E name \in names : CallDetach(stack, name)
    /\ Turn("detach")
    /\ UNCHANGED <<heap, cl, clone, listenerIdCounter, modules, eventHistory, asyncCalls,
                   jobs, configured, waits, out>>

(***************************************************************************)
(* Rail.waitFor: a promise, a timer that rejects it and a listener of      *)
(* module 'wait-for' that resolves it.                                     *)
(***************************************************************************)
\* a call of waitFor(event, timeout): timer is "armed", then "fired" or
\* "cleared"; state is that of the promise, value what it settled with; lid
\* is the id of the listener, since the length of the history at the call
Wait(event, lid) ==
    [event |-> event, lid |-> lid, timer |-> "armed", state |-> "pending",
     value |-> Undefined, since |-> Len(eventHistory)]

\* a bug: a promise that has settled settles again
SettleAgain(w, state, value) == [w EXCEPT !.state = state, !.value = value]

\* resolve(data) and reject(new Error(...)): the first call settles the
\* promise, a later call does nothing
Settle(w, state, value) ==
    IF w.state = "pending" THEN [w EXCEPT !.state = state, !.value = value] ELSE w

\* `Timeout waiting for event '${event}'`
Timeout(event) == Str("Timeout waiting for event '" \o event \o "'")

\* rail.waitFor(event, timeout): setTimeout, then this.on(event, ..., 'wait-for')
WaitFor(events) ==
    /\ Idle
    /\ listenerIdCounter < MaxListeners
    /\ \E event \in events :
           LET r == on(listeners, arrays, stack, event, "resolves", "wait-for",
                       listenerIdCounter + 1)
           IN  /\ listeners' = r.l
               /\ arrays' = r.a
               /\ waits' = Append(waits, Wait(event, listenerIdCounter + 1))
    /\ listenerIdCounter' = listenerIdCounter + 1
    /\ sig' = ReturnPromise("pending", "")
    /\ Turn("waitFor")
    /\ UNCHANGED <<heap, cl, clone, modules, eventHistory, stack, asyncCalls, jobs,
                   configured, detached, out>>

\* the timer of a waitFor call fires, the bus being idle:
\* reject(new Error(`Timeout waiting for event '${event}'`))
TimeoutFires ==
    /\ stack = <<>> /\ jobs = <<>>
    /\ \E w \in 1..Len(waits) :
           /\ waits[w].timer = "armed"
           /\ waits' = [waits EXCEPT ![w] = Settle([@ EXCEPT !.timer = "fired"], "rejected",
                                                   Timeout(@.event))]
    /\ sig' = NoSig
    /\ top' = "timer"
    /\ finished' = NoEmission
    /\ UNCHANGED <<heap, cl, clone, listeners, arrays, listenerIdCounter, modules,
                   eventHistory, stack, asyncCalls, jobs, ops, configured, detached, out>>

\* (data) => { clearTimeout(timer); unsubscribe(); resolve(data) }
HandlerResolves ==
    /\ InCallback("resolves")
    /\ LET w == CHOOSE n \in 1..Len(waits) : waits[n].lid = Top.lid
           r == off(listeners, arrays, Below, waits[w].event, Top.lid)
       IN  /\ waits' = [waits EXCEPT ![w] =
                            Settle([@ EXCEPT !.timer = IF @ = "armed" THEN "cleared" ELSE @],
                                   "resolved", Top.arg)]
           /\ listeners' = r.l
           /\ arrays' = Collect(r.l, r.a, Below)
    /\ stack' = Below
    /\ sig' = Return(0)
    /\ UNCHANGED <<heap, cl, clone, listenerIdCounter, modules, eventHistory, asyncCalls,
                   jobs, ops, top, configured, finished, detached, out>>

\* no introspection call made yet
\* at is the length the history had at the call
NoOut == [op |-> "none", arg |-> Undefined, value |-> <<>>, at |-> 0]

NoClone == [phase |-> "none", p |-> Undefined, r |-> Undefined, pre |-> Undefined]

\* new Rail(options): the flag is options.clone, true when it is not given
Constructed(flags, budget) ==
    /\ heap = <<>>
    /\ cl = NoClone
    /\ clone \in flags
    /\ configured = clone
    /\ listeners = [e \in Events |-> 0]
    /\ arrays = [n \in 1..NumArrays |-> <<>>]
    /\ listenerIdCounter = 0
    /\ modules = [name \in ModuleNames |-> NoModule]
    /\ eventHistory = <<>>
    /\ stack = <<>>
    /\ sig = NoSig
    /\ asyncCalls = <<>>
    /\ jobs = <<>>
    /\ ops = budget
    /\ top = "new"
    /\ finished = NoEmission
    /\ detached = {}
    /\ waits = <<>>
    /\ out = NoOut

Init == Constructed(BOOLEAN, MaxOps)

\* the engine: what emit, emitAsync and the jobs do between the calls
Engine ==
    \/ Invoke \/ EmitReturn \/ Handled \/ Catch \/ Restored \/ EmitThrows
    \/ Awaits \/ AsyncRestored \/ AsyncRejects \/ EmitAsyncReturn
    \/ Resumes \/ CatchesRejection \/ RejectionHandled

(***************************************************************************)
(* SpecFailure: listeners that return, throw or reject, and never call the *)
(* bus.                                                                    *)
(***************************************************************************)
FailureCallbacks == {"returns", "throws", "rejects"}

FailureNext ==
    \/ On(UserEvents, FailureCallbacks) \/ Off(UserEvents)
    \/ Emit(UserEvents) \/ EmitAsync(UserEvents)
    \/ Engine
    \/ HandlerReturns \/ HandlerThrows \/ HandlerRejects

SpecFailure == Constructed(BOOLEAN, MaxFailureOps) /\ [][FailureNext]_vars

(***************************************************************************)
(* Spec: handlers that fail, mutate their argument, switch the flag and    *)
(* emit.                                                                   *)
(***************************************************************************)
Callbacks == {"throws", "rejects", "mutates", "setsCloneOff", "emits"}

Next ==
    \/ On(UserEvents, Callbacks) \/ Off(UserEvents) \/ SetClone
    \/ Emit(UserEvents) \/ EmitAsync(UserEvents)
    \/ Engine
    \/ HandlerThrows \/ HandlerRejects \/ HandlerMutates \/ HandlerSetsClone
    \/ HandlerEmits \/ HandlerResumes

Spec == Init /\ [][Next]_vars

(***************************************************************************)
(* SpecRegistry: handlers and hooks that change the registry while it is   *)
(* being dispatched, on a registry built by on, off, attach and detach.    *)
(***************************************************************************)
RegistryCallbacks == {"returns", "listens", "unlistens", "detaches"}

RegistryNext ==
    \/ On({"e"}, RegistryCallbacks) \/ Off({"e"}) \/ Emit({"e"}) \/ EmitAsync({"e"})
    \/ Attach({"m1"}, {"listens", "throws"}, {"returns", "throws"})
    \/ AttachDuplicate({"m1"}) \/ Detach({"m1"})
    \/ Invoke \/ EmitReturn \/ Handled \/ Awaits \/ EmitAsyncReturn \/ Resumes
    \/ HandlerReturns \/ HandlerListens \/ HandlerUnlistens
    \/ HandlerDetaches \/ HandlerResumes
    \/ HookReturns \/ HookThrows \/ HookListens
    \/ Attached \/ AttachFails \/ AttachReturns \/ Disconnected \/ DetachReturns

SpecRegistry == Constructed({TRUE}, MaxRegistryOps) /\ [][RegistryNext]_vars

(***************************************************************************)
(* SpecModules: the module lifecycle.  Modules named 'm1' and 'anonymous', *)
(* with or without hooks, hooks that return, throw and register listeners, *)
(* attach given values that are no modules, and listeners registered with  *)
(* and without a module name.  Nothing here names 'anonymous' in a call of *)
(* on: a record of that module name was registered without a module name. *)
(***************************************************************************)
ModuleNext ==
    \/ On({"e"}, {"returns"}) \/ OnModule({"e"}, {"returns"}, {"m1"}) \/ Off({"e"})
    \/ Emit({"e"})
    \/ Attach({"m1"}, {"none", "listens", "listensThrows", "throws"},
              {"none", "returns", "throws"})
    \/ Attach({"anonymous"}, {"none", "throws"}, {"none", "returns", "throws"})
    \/ AttachDuplicate(ModuleNames) \/ AttachInvalid \/ Detach(ModuleNames)
    \/ Invoke \/ EmitReturn \/ Handled \/ HandlerReturns
    \/ HookReturns \/ HookThrows \/ HookListens
    \/ Attached \/ AttachFails \/ AttachReturns \/ Disconnected \/ DetachReturns

SpecModules == Constructed({TRUE}, MaxModuleOps) /\ [][ModuleNext]_vars

(***************************************************************************)
(* SpecAsync: emitAsync with handlers that return, wait for a timer, throw *)
(* and reject, registered under two module names; the timers fire in any   *)
(* order.  A listener of 'rail.error', if there is one, throws.            *)
(***************************************************************************)
AsyncNext ==
    \/ OnModule({"e"}, {"returns", "waits", "throws", "rejects"}, ModuleNames)
    \/ On({"rail.error"}, {"throws"})
    \/ EmitAsync({"e"})
    \/ Invoke \/ EmitReturn \/ Catch \/ EmitThrows
    \/ Awaits \/ AsyncRestored \/ AsyncRejects \/ EmitAsyncReturn
    \/ Resumes \/ CatchesRejection \/ RejectionHandled \/ TimerFires
    \/ HandlerReturns \/ HandlerWaits \/ HandlerThrows \/ HandlerRejects

SpecAsync == Constructed({TRUE}, MaxAsyncOps) /\ [][AsyncNext]_vars

(***************************************************************************)
(* SpecErrors: emit with listeners of module 'm1' that return, throw,       *)
(* return promises that reject, and register and remove listeners of the   *)
(* event being dispatched, and listeners of 'rail.error' that return or    *)
(* throw.                                                                  *)
(***************************************************************************)
ErrorNext ==
    \/ OnModule({"e"}, {"returns", "throws", "rejects", "listens", "unlistens"}, {"m1"})
    \/ On({"rail.error"}, {"returns", "throws"})
    \/ Emit(UserEvents)
    \/ Invoke \/ EmitReturn \/ Handled \/ Catch \/ Restored \/ EmitThrows
    \/ HandlerReturns \/ HandlerThrows \/ HandlerRejects
    \/ HandlerListens \/ HandlerUnlistens

SpecErrors == Constructed(BOOLEAN, MaxErrorOps) /\ [][ErrorNext]_vars

(***************************************************************************)
(* SpecWait: waitFor calls whose timers fire at any time, among on, off    *)
(* (with ids issued, removed or never issued: 0 is no listener's id),      *)
(* unsubscribe from inside a handler, attach, detach, emit and emitAsync.  *)
(***************************************************************************)
WaitNext ==
    \/ WaitFor({"e"}) \/ TimeoutFires
    \/ On({"e"}, {"returns", "unlistens"}) \/ OffIds({"e"}, 0..listenerIdCounter)
    \/ Emit({"e"}) \/ EmitAsync({"e"})
    \/ Attach({"m1"}, {"listens"}, {"none"}) \/ Detach({"m1"})
    \/ Invoke \/ EmitReturn \/ Handled \/ Awaits \/ EmitAsyncReturn \/ Resumes
    \/ HandlerReturns \/ HandlerUnlistens \/ HandlerResolves
    \/ HookListens \/ Attached \/ AttachReturns \/ Disconnected \/ DetachReturns

SpecWait == Constructed(BOOLEAN, MaxWaitOps) /\ [][WaitNext]_vars

(***************************************************************************)
(* SpecStats: the registry, the module table and the history as the        *)
(* introspection calls report them, between calls of on (with callbacks    *)
(* that are functions or not), off, emit, emitAsync, clearHistory, attach  *)
(* and detach.                                                             *)
(***************************************************************************)
StatsNext ==
    \/ On({"e"}, {"returns", "throws"}) \/ OnInvalid({"e"})
    \/ OffIds({"e"}, 0..listenerIdCounter)
    \/ Emit({"e"}) \/ EmitAsync({"e"}) \/ ClearHistory
    \/ GetStats \/ GetEvents
    \/ Attach({"m1"}, {"listens"}, {"none"}) \/ Detach({"m1"})
    \/ Invoke \/ EmitReturn \/ Handled \/ Catch \/ Restored
    \/ Awaits \/ AsyncRestored \/ EmitAsyncReturn \/ Resumes
    \/ HandlerReturns \/ HandlerThrows
    \/ HookListens \/ Attached \/ AttachReturns \/ Disconnected \/ DetachReturns

SpecStats == Constructed({TRUE}, MaxStatsOps) /\ [][StatsNext]_vars

(***************************************************************************)
(* SpecHistory: getHistory with and without a limit, on histories of up to *)
(* MaxHistory emissions.                                                   *)
(***************************************************************************)
Limits == {Undefined} \cup {Num(n) : n \in 0..(MaxHistory + 1)}

HistoryNext == Emit({"e"}) \/ EmitReturn \/ GetHistory(Limits)

SpecHistory == Constructed({TRUE}, MaxHistory + 1) /\ [][HistoryNext]_vars

(***************************************************************************)
(* SpecAsyncLive: emitAsync with handlers that return, throw, return a     *)
(* promise a timer fulfils, and return a promise nothing settles.  The     *)
(* engine runs a call to its end, drains the job queue and fires every     *)
(* timer that was set: a step of the event loop that stays possible is     *)
(* taken.                                                                  *)
(***************************************************************************)
EventLoop ==
    \/ Invoke \/ EmitReturn \/ Catch
    \/ Awaits \/ AsyncRestored \/ EmitAsyncReturn \/ Resumes \/ TimerFires
    \/ HandlerReturns \/ HandlerWaits \/ HandlerHangs \/ HandlerThrows

LiveNext ==
    \/ On({"e"}, {"returns", "waits", "hangs", "throws"})
    \/ EmitAsync({"e"})
    \/ EventLoop

SpecAsyncLive ==
    Constructed({TRUE}, MaxLiveOps) /\ [][LiveNext]_vars /\ WF_vars(EventLoop)

(***************************************************************************)
(* SpecLifecycle: a module 'm1' attached, detached and attached again,     *)
(* whose connect hook registers a listener of 'e' or of one of the two     *)
(* notifications under the module's name, whose disconnect hook may        *)
(* register one too, and a listener of 'rail.module.detached' registered   *)
(* without a module name.                                                  *)
(***************************************************************************)
LifecycleNext ==
    \/ Attach({"m1"}, {"listens", "listensAttached", "listensDetached"},
              {"none", "returns", "listensDetached"})
    \/ Detach({"m1"})
    \/ On({"rail.module.detached"}, {"returns"})
    \/ Emit({"e"})
    \/ Invoke \/ EmitReturn \/ Handled \/ HandlerReturns
    \/ HookReturns \/ HookListens
    \/ Attached \/ AttachReturns \/ Disconnected \/ DetachReturns

SpecLifecycle == Constructed({TRUE}, MaxLifeOps) /\ [][LifecycleNext]_vars

BusIdle ==
    UNCHANGED <<clone, listeners, arrays, listenerIdCounter, modules, eventHistory,
                stack, sig, asyncCalls, jobs, ops, top, configured, finished, detached, waits, out>>
(***************************************************************************)
(* The clone engine alone: a payload is built, cloned, and the clone is    *)
(* then mutated somewhere.                                                 *)
(***************************************************************************)
CloneInit ==
    \E t \in Payloads :
        LET b == Build(<<>>, t)
        IN  /\ heap = b.h
            /\ cl = [phase |-> "built", p |-> b.r, r |-> Undefined, pre |-> Snapshot(b.h, b.r)]
            /\ clone = TRUE
            /\ configured = TRUE
            /\ listeners = [e \in Events |-> 0]
            /\ arrays = [n \in 1..NumArrays |-> <<>>]
            /\ listenerIdCounter = 0
            /\ modules = [name \in ModuleNames |-> NoModule]
            /\ eventHistory = <<>>
            /\ stack = <<>>
            /\ sig = NoSig
            /\ asyncCalls = <<>>
            /\ jobs = <<>>
            /\ ops = 0
            /\ top = "new"
            /\ finished = NoEmission
            /\ detached = {}
            /\ waits = <<>>
            /\ out = NoOut

DoClone ==
    /\ cl.phase = "built"
    /\ LET c == _deepClone(heap, cl.p)
       IN  /\ heap' = c.h
           /\ cl' = IF c.e # "" THEN [cl EXCEPT !.phase = "threw"]
                     ELSE [cl EXCEPT !.phase = "cloned", !.r = c.r]
    /\ BusIdle

MutateClone ==
    /\ cl.phase = "cloned"
    /\ \E a \in Reach(heap, cl.r) : \E n \in NodeMutations(heap[a]) :
           heap' = [heap EXCEPT ![a] = n]
    /\ cl' = [cl EXCEPT !.phase = "mutated"]
    /\ BusIdle

CloneNext == DoClone \/ MutateClone

SpecClone == CloneInit /\ [][CloneNext]_vars

(***************************************************************************)
(* The properties.                                                         *)
(***************************************************************************)
\* C1: during emit(E, payload), for an event E other than 'rail.error', when
\* the callback of a listener of E throws, every listener registered for E
\* after it is still invoked in that emission: an emission in which a callback
\* threw ends having invoked all the listeners it began with.
C1_ErrorIsolation ==
    (finished.failed /\ finished.event # "rail.error") =>
        finished.invoked = finished.snap

\* C2: no handler failure reaches the emitter: a call of emit made on the idle
\* bus never ends with an exception, and the promise of an emitAsync call
\* never rejects, whichever listeners throw or reject.
C2_NoFailureReachesEmitter ==
    /\ ~(stack = <<>> /\ top \in {"emit", "emitAsync"} /\ sig.k = "throw")
    /\ \A c \in 1..Len(asyncCalls) : PromiseState(asyncCalls[c]) # "rejected"

\* C3: funnelling failures into 'rail.error' never recurses without bound:
\* with listeners that return, throw or reject and never call the bus, the
\* nested 'rail.error' emissions never use up the call stack.
C3_BoundedErrorRecursion ==
    ~(sig.k = "throw" /\ sig.s = "RangeError")

\* C4: with cloning enabled, what a listener is given shares no node with the
\* emitted payload nor with what any other listener of the emission is given,
\* and an emission whose listeners were all given clones leaves the emitted
\* payload as it was.
C4_CloneIsolation ==
    \A i \in {n \in 1..Len(stack) : stack[n].op \in {"emit", "emitAsync"}} :
        LET f == stack[i]
        IN  IsRef(f.data) =>
                /\ \A j \in 1..Len(f.given) :
                       f.given[j].cloned =>
                           /\ f.given[j].arg # f.data
                           /\ Reach(heap, f.given[j].arg) \cap Reach(heap, f.data) = {}
                           /\ \A k \in 1..Len(f.given) :
                                  k # j => Reach(heap, f.given[j].arg)
                                               \cap Reach(heap, f.given[k].arg) = {}
                /\ (\A j \in 1..Len(f.given) : f.given[j].cloned) =>
                       Snapshot(heap, f.data) = f.pre

\* two listeners of one emission were given clones, the first has mutated its
\* own, the second's and the emitted payload are as they were
C4_Witness ==
    \E i \in {n \in 1..Len(stack) : stack[n].op \in {"emit", "emitAsync"}} :
        LET f == stack[i]
        IN  /\ Len(f.given) = 2
            /\ f.given[1].cloned /\ f.given[2].cloned
            /\ Snapshot(heap, f.given[1].arg) # f.pre
            /\ Snapshot(heap, f.given[2].arg) = f.pre
            /\ Snapshot(heap, f.data) = f.pre
\* C5: for every payload p of plain objects, arrays, dates, regexes and
\* primitives, _deepClone(p) returns a value deeply equal to p that shares no
\* node with p, so that mutating the result anywhere leaves p as it was; a
\* primitive, null or undefined is returned as it is.
C5_CloneIsolated ==
    /\ cl.phase # "threw"
    /\ cl.phase \in {"cloned", "mutated"} =>
           /\ ~IsRef(cl.p) => cl.r = cl.p
           /\ IsRef(cl.p) => IsRef(cl.r)
           /\ cl.phase = "cloned" => ValueOf(heap, cl.r) = ValueOf(heap, cl.p)
           /\ Reach(heap, cl.r) \cap Reach(heap, cl.p) = {}
           /\ Snapshot(heap, cl.p) = cl.pre

\* C6: while the clone flag is false, a listener invoked for an event other
\* than 'rail.error' is given the very object that was passed to emit, in
\* every emission, those made from inside handlers included.
C6_SameReference ==
    \A i \in {n \in 1..Len(stack) : stack[n].op \in {"emit", "emitAsync"}} :
        LET f == stack[i]
        IN  f.event # "rail.error" =>
                \A j \in 1..Len(f.given) :
                    ~f.given[j].cloned => f.given[j].arg = f.data

\* a handler emitted from inside an emission with the flag false, and the
\* listener of that inner emission has mutated the object the handler passed
C6_Witness ==
    \E i \in {n \in 1..Len(stack) : stack[n].op \in {"emit", "emitAsync"}} :
        LET f == stack[i]
        IN  /\ i > 1
            /\ f.event # "rail.error"
            /\ Len(f.given) = 1 /\ ~f.given[1].cloned
            /\ Snapshot(heap, f.data) # f.pre

\* C7: a 'rail.error' emission the bus makes because a handler failed gives
\* each 'rail.error' listener a clone of its own of the error payload,
\* whatever the clone flag of the bus.
C7_ErrorPayloadCloned ==
    \A i \in {n \in 1..Len(stack) : stack[n].op \in {"emit", "emitAsync"}} :
        LET f == stack[i]
        IN  f.forced =>
                \A j \in 1..Len(f.given) :
                    /\ f.given[j].arg # f.data
                    /\ \A k \in 1..Len(f.given) : k # j => f.given[k].arg # f.given[j].arg

\* C8: the clone flag changes only through the constructor and setClone: once
\* an emit or emitAsync call made on the idle bus is over, the flag is the
\* value the constructor or the latest setClone call gave it.
C8_FlagOnlyBySetters == stack = <<>> => clone = configured

\* C9: in every emit and emitAsync the listeners are invoked in the order of
\* their registration, that is by ascending listener id.
C9_RegistrationOrder ==
    \A i \in {n \in 1..Len(stack) : stack[n].op \in {"emit", "emitAsync"}} :
        \A j, k \in 1..Len(stack[i].invoked) :
            j < k => stack[i].invoked[j] < stack[i].invoked[k]

\* an emitAsync has invoked two listeners between whose registrations a
\* third, removed since, was registered
C9_Witness ==
    \E i \in {n \in 1..Len(stack) : stack[n].op \in {"emit", "emitAsync"}} :
        LET f == stack[i]
        IN  /\ f.op = "emitAsync"
            /\ Len(f.invoked) = 2
            /\ f.invoked[2] > f.invoked[1] + 1

\* C10: the listeners an emission invokes are exactly those registered for the
\* event when it started, each once: every emission that ends has invoked the
\* listeners it began with, and only them.
C10_SnapshotDispatch ==
    finished.how # "" => finished.invoked = finished.snap

C12_AnonymousSurvives == \A x \in detached : x.module # "anonymous"

\* C13: a detach call that returns true has invoked the disconnect hook of
\* the module exactly once (not at all when the module has none); a
\* disconnect hook runs only in a detach call that found the module attached,
\* so a call that returns false invokes none.
C13_DisconnectOnce ==
    /\ (stack # <<>> /\ Top.op = "detach" /\ Top.pc = "emit" /\ sig.k = "return") =>
           Top.hooks = (IF Top.hook = "none" THEN 0 ELSE 1)
    /\ \A n \in 2..Len(stack) :
           (stack[n].op = "hook" /\ stack[n - 1].op = "detach") =>
               /\ stack[n - 1].name \in stack[n - 1].before.modules
               /\ stack[n].name = stack[n - 1].name
               /\ stack[n - 1].hooks = 0

\* a detach call is about to return true, its module's disconnect hook having run
C13_Witness ==
    /\ stack # <<>> /\ Top.op = "detach" /\ Top.pc = "emit" /\ sig.k = "return"
    /\ Top.hook # "none" /\ Top.hooks = 1

\* C14: when the disconnect hook of m throws, detach(m) still completes: the
\* call ends returning true, not with the exception, m is gone from the
\* module table and the history has gained the 'rail.module.detached' event
\* naming m.
C14_DisconnectThrowsStillDetaches ==
    [][(/\ stack # <<>> /\ Top.op = "detach"
        /\ Top.hook = "throws" /\ Top.hooks = 1
        /\ stack' = <<>>) =>
           /\ sig' = Return(1)
           /\ ~modules'[Top.name].attached
           /\ Len(eventHistory') = Len(Top.before.history) + 1
           /\ SubSeq(eventHistory', 1, Len(Top.before.history)) = Top.before.history
           /\ eventHistory'[Len(eventHistory')].event = "rail.module.detached"
           /\ heap'[eventHistory'[Len(eventHistory')].data.n] = ModulePayload(Top.name)]_vars

\* detach is about to return, the disconnect hook of its module having thrown
C14_Witness ==
    /\ stack # <<>> /\ Top.op = "detach" /\ Top.pc = "emit" /\ sig.k = "return"
    /\ Top.hook = "throws" /\ Top.hooks = 1
    /\ Top.name \in Top.before.modules

\* C15: detach(name) with no module of that name attached returns false and
\* changes nothing: the registry (the listeners registered under that name
\* included), the module table and the history are as they were, so no
\* 'rail.module.detached' is emitted.
C15_DetachUnknownChangesNothing ==
    [][(stack = <<>> /\ top' = "detach" /\ ops' # ops /\ stack' = <<>>) =>
           /\ sig' = Return(0)
           /\ \E name \in ModuleNames : ~modules[name].attached
           /\ UNCHANGED <<listeners, arrays, modules, eventHistory, heap, detached>>]_vars

\* detach has returned false while listeners are registered under the names
\* of both modules, neither being attached
C15_Witness ==
    /\ stack = <<>> /\ top = "detach" /\ sig = Return(0)
    /\ \A name \in ModuleNames :
           /\ ~modules[name].attached
           /\ \E x \in SeqRange(Registry(listeners, arrays)["e"]) : x.module = name

\* C16: when the connect hook of a module throws, attach throws an error
\* whose message carries the message of the hook's error, the name of the
\* module is not in getModules() afterwards, and the history has gained no
\* 'rail.module.attached' event.
C16_ConnectFailure ==
    [][(stack # <<>> /\ Top.op = "attach" /\ Top.pc = "connect" /\ sig.k = "throw") =>
           /\ stack' = <<>>
           /\ sig'.k = "throw"
           /\ sig'.s = "Failed to connect module '" \o Top.name \o "': " \o sig.s
           /\ ~modules'[Top.name].attached
           /\ {name \in ModuleNames : modules'[name].attached} = Top.before.modules
           /\ eventHistory' = Top.before.history]_vars

\* attach has thrown, the connect hook of the module having thrown 'boom'
C16_Witness ==
    /\ stack = <<>> /\ top = "attach"
    /\ sig = Throw("Failed to connect module 'm1': boom")
    /\ ~modules["m1"].attached

\* C17: a failed attach is rolled back atomically: when the connect hook
\* throws, the registry that getEvents() and getStats() report is, once attach
\* has thrown, what it was when attach was called: none of the listeners the
\* hook registered before throwing remain, to be invoked by later emissions.
C17_FailedAttachRollsBack ==
    [][(stack # <<>> /\ Top.op = "attach" /\ Top.pc = "connect" /\ sig.k = "throw") =>
           Registry(listeners', arrays') = Top.before.registry]_vars

\* C18: an attach that fails its precondition (the argument is not an
\* object, has no non-empty string name, or its name is taken) throws at
\* once, no hook being called, and leaves the module table, the registry and
\* the history as they were: the module attached under the name and its
\* listeners stay.
C18_RejectedAttachChangesNothing ==
    [][(stack = <<>> /\ top' = "attach" /\ ops' # ops /\ stack' = <<>>) =>
           /\ sig'.k = "throw"
           /\ sig'.s \in {"Module must be an object", "Module must have a name property",
                          "already attached"}
           /\ UNCHANGED <<listeners, arrays, modules, eventHistory, heap>>]_vars

\* attach has thrown for a name that is taken, the module of that name being
\* attached with the listener its connect hook registered
C18_Witness ==
    /\ stack = <<>> /\ top = "attach" /\ sig = Throw("already attached")
    /\ modules["m1"].attached /\ modules["m1"].connect = "listens"
    /\ \E x \in SeqRange(Registry(listeners, arrays)["e"]) : x.module = "m1"

\* C19: the sequence emitAsync resolves to has exactly one entry per listener
\* registered for the event when emitAsync was called, the i-th entry carrying
\* the module name and the outcome of the i-th of them (the value of a handler
\* that returned or waited, the message of one that threw or rejected), in
\* whatever order the handlers completed; with no listeners it is empty.
C19_ResultsInRegistrationOrder ==
    \A c \in 1..Len(asyncCalls) :
        PromiseState(asyncCalls[c]) = "fulfilled" =>
            /\ Len(asyncCalls[c].units) = Len(asyncCalls[c].listeners)
            /\ \A i \in 1..Len(asyncCalls[c].units) :
                   LET unit == asyncCalls[c].units[i]
                       listener == asyncCalls[c].listeners[i]
                   IN  /\ unit.module = listener.module
                       /\ listener.callback = "waits" =>
                              unit.status = "result" /\ unit.result = listener.id
                       /\ listener.callback = "returns" =>
                              unit.status = "result" /\ unit.result = 0
                       /\ listener.callback \in {"throws", "rejects"} =>
                              unit.status = "error" /\ unit.error = "boom"

\* emitAsync has resolved to the results of two handlers of different modules,
\* the first of which got its result after the second had settled
C19_Witness ==
    \E c \in 1..Len(asyncCalls) :
        /\ PromiseState(asyncCalls[c]) = "fulfilled"
        /\ Len(asyncCalls[c].units) = 2
        /\ asyncCalls[c].units[1].late
        /\ asyncCalls[c].units[1].module # asyncCalls[c].units[2].module

\* C20: the promise emitAsync returned is fulfilled only when the call has
\* mapped every listener it found and every handler has settled; a handler
\* that fails makes it neither resolve early nor reject, and every listener
\* the call found has been invoked when the call returns.
C20_WaitsForAllHandlers ==
    \A c \in 1..Len(asyncCalls) :
        /\ PromiseState(asyncCalls[c]) = "fulfilled" =>
               \A u \in 1..Len(asyncCalls[c].units) :
                   asyncCalls[c].units[u].status \in {"result", "error"}
        /\ asyncCalls[c].returned =>
               Len(asyncCalls[c].units) = Len(asyncCalls[c].listeners)
        /\ PromiseState(asyncCalls[c]) # "rejected"

\* C21: in emitAsync, a handler that throws or whose promise rejects yields
\* the entry {module, result: null, error: message} and one 'rail.error'
\* emission naming its module and the event, and a handler that returns or
\* whose promise is fulfilled yields {module, result: its value, error: null}:
\* every promise of a handler that has settled carries that entry, and on the
\* idle bus the 'rail.error' emissions for a module are as many as the
\* handlers of that module that failed.
C21_AsyncOutcomeEntries ==
    /\ \A c \in 1..Len(asyncCalls) : \A i \in 1..Len(asyncCalls[c].units) :
           LET unit == asyncCalls[c].units[i]
               listener == asyncCalls[c].listeners[i]
           IN  unit.status \notin {"pending", "awaiting"} =>
                   /\ unit.module = listener.module
                   /\ listener.callback \in {"throws", "rejects"} =>
                          unit.status = "error" /\ unit.error = "boom" /\ unit.result = 0
                   /\ listener.callback = "returns" =>
                          unit.status = "result" /\ unit.error = "" /\ unit.result = 0
                   /\ listener.callback = "waits" =>
                          unit.status = "result" /\ unit.error = ""
                              /\ unit.result = listener.id
    /\ (stack = <<>> /\ jobs = <<>>) =>
           \A name \in ModuleNames :
               Cardinality({k \in 1..Len(eventHistory) :
                               /\ eventHistory[k].event = "rail.error"
                               /\ heap[eventHistory[k].data.n].items[1] = Str(name)
                               /\ heap[eventHistory[k].data.n].items[2] = Str("e")})
                   = Cardinality({x \in UNION {{<<c, i>> : i \in 1..Len(asyncCalls[c].units)} :
                                                  c \in 1..Len(asyncCalls)} :
                                     /\ asyncCalls[x[1]].units[x[2]].module = name
                                     /\ asyncCalls[x[1]].listeners[x[2]].callback
                                            \in {"throws", "rejects"}
                                     /\ asyncCalls[x[1]].units[x[2]].status
                                            \notin {"pending", "awaiting"}})

\* C22: when a handler invoked by emit returns a promise that rejects, a
\* 'rail.error' event naming the handler's module and the emitted event is
\* eventually emitted: once emit('e') has returned and the job queue is empty,
\* the 'rail.error' emissions naming 'e' that followed the emission of 'e' are
\* as many as the listeners whose callback threw or returned a promise that
\* rejected.
C22_RejectionFunnelled ==
    (/\ stack = <<>> /\ jobs = <<>> /\ top = "emit"
     /\ finished.how = "returned" /\ finished.event = "e") =>
        LET last == CHOOSE k \in 1..Len(eventHistory) :
                        /\ eventHistory[k].event = "e"
                        /\ \A j \in (k + 1)..Len(eventHistory) : eventHistory[j].event # "e"
        IN  Cardinality({k \in (last + 1)..Len(eventHistory) :
                            /\ eventHistory[k].event = "rail.error"
                            /\ heap[eventHistory[k].data.n].items[2] = Str("e")})
                = Cardinality({x \in SeqRange(Registry(listeners, arrays)["e"]) :
                                  /\ x.id \in SeqRange(finished.invoked)
                                  /\ x.callback \in {"throws", "rejects"}})

C25_SettlesOnce ==
    [][\A w \in 1..Len(waits) :
           LET old == waits[w]
               new == waits'[w]
               since == {k \in (old.since + 1)..Len(eventHistory) :
                            eventHistory[k].event = old.event}
           IN  /\ old.state # "pending" => new.state = old.state /\ new.value = old.value
               /\ (old.state = "pending" /\ new.state = "resolved") =>
                      /\ old.timer = "armed" /\ new.timer = "cleared"
                      /\ InCallback("resolves") /\ Top.lid = old.lid
                      /\ new.value = Top.arg
                      /\ since # {}
                      /\ LET first == CHOOSE k \in since : \A j \in since : k <= j
                         IN  /\ stack[Len(stack) - 1].data = eventHistory[first].data
                             /\ ~clone => new.value = eventHistory[first].data
                             /\ clone => /\ new.value # eventHistory[first].data
                                         /\ ValueOf(heap, new.value)
                                                = ValueOf(heap, eventHistory[first].data)
               /\ (old.state = "pending" /\ new.state = "rejected") =>
                      /\ old.timer = "armed" /\ new.timer = "fired"
                      /\ new.value = Str("Timeout waiting for event 'e'")
                      /\ old.lid \in SeqRange(Ids(Registry(listeners, arrays)[old.event]))
                             => since = {}
               /\ (InCallback("resolves") /\ Top.lid = old.lid /\ old.state = "pending") =>
                      new.state = "resolved"
               /\ new.state = "pending" <=> new.timer = "armed"
               /\ new.state = "resolved" <=> new.timer = "cleared"
               /\ new.state = "rejected" <=> new.timer = "fired"]_vars

\* the timer of a waitFor call fired and its promise rejected; a later emit
\* of the event has invoked the listener, and the promise is still rejected
\* with the Timeout error
C25_Witness ==
    \E w \in 1..Len(waits) :
        /\ waits[w].state = "rejected" /\ waits[w].timer = "fired"
        /\ waits[w].value = Str("Timeout waiting for event 'e'")
        /\ stack = <<>> /\ top = "emit"
        /\ waits[w].lid \in SeqRange(finished.invoked)

\* C26: waitFor deregisters its listener in either outcome: once the promise
\* of waitFor(E, t) has settled, by resolution or by timeout, the listener of
\* module 'wait-for' that the call registered for E is not in the registry.
C26_WaitForDeregisters ==
    \A w \in 1..Len(waits) :
        waits[w].state # "pending" =>
            \A x \in SeqRange(Registry(listeners, arrays)[waits[w].event]) :
                x.id # waits[w].lid

C28_OffReportsRemoval ==
    [][(stack = <<>> /\ top' = "off" /\ ops' = ops - 1) =>
           sig' = Return(IF Registry(listeners', arrays')["e"]
                                # Registry(listeners, arrays)["e"] THEN 1 ELSE 0)]_vars

\* C29: listener ids are unique for the lifetime of a bus: the counter never
\* decreases, every listener record that enters the registry has an id
\* greater than the counter was, hence than every id issued before, also
\* after removals by off, unsubscribe or detach, and no two records, in the
\* registry, in a list being dispatched or removed by detach, share an id.
C29_IdsNeverReused ==
    [][/\ listenerIdCounter' >= listenerIdCounter
       /\ \A e \in Events :
              \A x \in SeqRange(Registry(listeners', arrays')[e]) :
                  x.id \notin UNION {SeqRange(Ids(Registry(listeners, arrays)[d])) : d \in Events}
                      => x.id > listenerIdCounter /\ x.id <= listenerIdCounter'
       /\ \A n \in 1..NumArrays : \A i, j \in 1..Len(arrays'[n]) :
              arrays'[n][i].id = arrays'[n][j].id => i = j
       /\ \A x, y \in UNION {SeqRange(arrays'[n]) : n \in 1..NumArrays} \cup detached' :
              x.id = y.id => x = y]_vars

\* listener 1 was removed by detach, and the listener registered after that
\* has id 2
C29_Witness ==
    /\ stack = <<>> /\ top \in {"on", "waitFor"}
    /\ listenerIdCounter = 2
    /\ Ids(Registry(listeners, arrays)["e"]) = <<2>>
    /\ \E x \in detached : x.id = 1

\* C30: in every state reachable through on, off, unsubscribe, attach,
\* detach, emit, emitAsync and waitFor, every event key of the registry maps
\* to a non-empty listener list: a list that becomes empty is removed from
\* the map, so that getEvents() and getStats().events name only events with
\* at least one listener.
C30_NoEmptyLists ==
    \A e \in Events : listeners[e] # 0 => arrays[listeners[e]] # <<>>

\* listeners were registered by waitFor and by the connect hook of a module,
\* the first unsubscribed itself, detach removed the other, and the registry
\* has no key left
C30_Witness ==
    /\ listenerIdCounter > 1
    /\ \A e \in Events : listeners[e] = 0
    /\ \E w \in 1..Len(waits) : waits[w].state = "resolved"
    /\ \E x \in detached : x.module = "m1"

\* C31: on(event, callback) with a callback that is not a function throws and
\* leaves the bus as it was: no listener list is created for the event, no
\* listener is added and the listener id counter is not advanced.
C31_InvalidCallbackChangesNothing ==
    [][(stack = <<>> /\ sig'.k = "throw" /\ sig'.s = "Callback must be a function") =>
           /\ top' = "on"
           /\ UNCHANGED <<listeners, arrays, listenerIdCounter, modules, eventHistory>>]_vars

\* on has thrown for a callback that is no function, on a bus where a
\* listener had been registered and removed: the event has no list and the
\* counter is where it was
C31_Witness ==
    /\ stack = <<>> /\ top = "on"
    /\ sig = Throw("Callback must be a function")
    /\ listeners["e"] = 0
    /\ listenerIdCounter = 1

\* C32: every call of emit or emitAsync, the emissions the bus makes itself
\* for 'rail.error', 'rail.module.attached' and 'rail.module.detached'
\* included, appends exactly one history entry before any listener of the
\* emission is invoked; the entries keep the order of the emissions and are
\* removed only by clearHistory, which removes them all.
C32_OneEntryPerEmission ==
    [][/\ (Len(stack') = Len(stack) + 1 /\ stack'[Len(stack')].op \in {"emit", "emitAsync"}) =>
              /\ eventHistory' = Append(eventHistory,
                     [event |-> stack'[Len(stack')].event, data |-> stack'[Len(stack')].data,
                      timestamp |-> stack'[Len(stack')].timestamp])
              /\ stack'[Len(stack')].invoked = <<>>
              /\ stack'[Len(stack')].pc = "forEach" /\ stack'[Len(stack')].i = 1
       /\ eventHistory' # eventHistory =>
              \/ /\ Len(stack') = Len(stack) + 1
                 /\ stack'[Len(stack')].op \in {"emit", "emitAsync"}
              \/ /\ stack = <<>> /\ top' = "clearHistory" /\ eventHistory' = <<>>]_vars

\* an emission of 'e' and the 'rail.error' emission the bus made for its
\* listener that threw were cleared from the history, which now holds the
\* one notification of the attach made since
C32_Witness ==
    /\ stack = <<>> /\ top = "attach"
    /\ Len(eventHistory) = 1
    /\ eventHistory[1].event = "rail.module.attached"
    /\ \E a \in 1..Len(heap) : heap[a].keys = <<"module", "event", "error", "timestamp">>

\* C33: for every integer limit >= 0 and every history of n entries,
\* getHistory(limit) returns at most limit entries, namely the last
\* min(limit, n) entries in emission order; without an argument it returns
\* at most 10.
C33_HistorySlice ==
    out.op = "getHistory" =>
        LET n == out.at
            limit == IF out.arg = Undefined THEN 10 ELSE out.arg.n
            m == IF limit < n THEN limit ELSE n
        IN  /\ Len(out.value) <= limit
            /\ out.value = SubSeq(eventHistory, n - m + 1, n)

\* C34: at every point between operations getStats().modules is the number
\* of attached modules, getStats().events the number of events that have at
\* least one listener, getStats().totalListeners the number of listener
\* records created by on() and not yet removed (every step either creates
\* exactly the record with the next id or creates none), and getEvents()
\* maps each such event to the module names of its listeners in the order of
\* their registration.
C34_StatsMatchRegistry ==
    [][LET R == Registry(listeners', arrays')
           Was == Registry(listeners, arrays)
           live == UNION {{R[e][i].id : i \in 1..Len(R[e])} : e \in Events}
           before == UNION {{Was[e][i].id : i \in 1..Len(Was[e])} : e \in Events}
           heard == {e \in Events : Len(R[e]) > 0}
       IN  /\ listenerIdCounter' # listenerIdCounter =>
                  /\ listenerIdCounter' = listenerIdCounter + 1
                  /\ live = before \cup {listenerIdCounter'}
                  /\ listenerIdCounter' \notin before
           /\ listenerIdCounter' = listenerIdCounter => live \subseteq before
           /\ (top' = "getStats" /\ ops' = ops - 1) =>
                  /\ out'.value[1].modules =
                         Cardinality({name \in ModuleNames : modules'[name].attached})
                  /\ out'.value[1].events = Cardinality(heard)
                  /\ out'.value[1].totalListeners = Cardinality(live)
           /\ (top' = "getEvents" /\ ops' = ops - 1) =>
                  /\ DOMAIN out'.value[1] = heard
                  /\ \A e \in heard :
                         /\ out'.value[1][e] = [i \in 1..Len(R[e]) |-> R[e][i].module]
                         /\ \A i, j \in 1..Len(R[e]) : i < j => R[e][i].id < R[e][j].id
      ]_vars

\* one of the two listeners on() created has been removed, and getStats()
\* reports no module, one event and one listener
C34_Witness ==
    /\ top = "getStats"
    /\ out.op = "getStats"
    /\ listenerIdCounter = 2
    /\ out.value[1].totalListeners = 1
    /\ out.value[1].events = 1
    /\ out.value[1].modules = 0
    /\ Len(Registry(listeners, arrays)["e"]) = 1

\* C35: emitAsync has no timeout.  In the end the promise of every call
\* whose handlers all settle is fulfilled; once a handler of a call has
\* returned a promise that nothing settles, that stays so and the promise of
\* the call is pending, whatever timers fire.
C35_NoTimeout ==
    /\ <>[](\A c \in 1..Len(asyncCalls) :
                \/ PromiseState(asyncCalls[c]) = "fulfilled"
                \/ \E u \in 1..Len(asyncCalls[c].units) :
                       asyncCalls[c].units[u].status = "never")
    /\ [](\A c \in 1..Len(asyncCalls) :
              (\E u \in 1..Len(asyncCalls[c].units) :
                   asyncCalls[c].units[u].status = "never")
              => PromiseState(asyncCalls[c]) = "pending")
    /\ [][\A c \in 1..Len(asyncCalls) : \A u \in 1..Len(asyncCalls[c].units) :
              asyncCalls[c].units[u].status = "never"
              => asyncCalls'[c].units[u].status = "never"]_vars

\* the first call, with one handler whose promise a timer fulfilled, is
\* fulfilled; the second, made after a handler that hangs was registered, has
\* the first handler's result and is pending with nothing left to run
C35_Witness ==
    /\ Len(asyncCalls) = 2
    /\ stack = <<>> /\ jobs = <<>> /\ ops = 0
    /\ Len(asyncCalls[1].units) = 1
    /\ asyncCalls[1].units[1].late = FALSE
    /\ PromiseState(asyncCalls[1]) = "fulfilled"
    /\ Len(asyncCalls[2].units) = 2
    /\ asyncCalls[2].units[1].status = "result"
    /\ asyncCalls[2].units[2].status = "never"
    /\ asyncCalls[2].returned
    /\ PromiseState(asyncCalls[2]) = "pending"
    /\ \A e \in Events : \A i \in 1..Len(Registry(listeners, arrays)[e]) :
           Registry(listeners, arrays)[e][i].callback \in {"waits", "hangs"}

\* C36: in a successful attach the module is in the module table while its
\* connect hook runs; the one 'rail.module.attached' emission of the call,
\* which carries the module's name, starts when connect has returned; the
\* listeners connect registered for 'rail.module.attached' are invoked by it;
\* and attach returns the bus.
C36_AttachNotifiesAfterConnect ==
    [][/\ (/\ Len(stack') >= 2
           /\ Top'.op = "hook"
           /\ stack'[Len(stack') - 1].op = "attach") =>
              modules'[Top'.name].attached
       /\ (/\ Len(eventHistory') = Len(eventHistory) + 1
           /\ eventHistory'[Len(eventHistory')].event = "rail.module.attached") =>
              /\ stack # <<>> /\ Top.op = "attach" /\ Top.pc = "connect"
              /\ sig.k = "return" /\ Top.hooks = 1
              /\ modules[Top.name].attached
              /\ heap'[eventHistory'[Len(eventHistory')].data.n] =
                     ObjectNode(<<"moduleName">>, <<Str(Top.name)>>)
       /\ (/\ stack # <<>> /\ Top.op = "attach" /\ Top.pc = "emit"
           /\ sig.k = "return") =>
              /\ Len(eventHistory) = Len(Top.before.history) + 1
              /\ eventHistory[Len(eventHistory)].event = "rail.module.attached"
              /\ finished.event = "rail.module.attached"
              /\ \A l \in SeqRange(Registry(listeners, arrays)["rail.module.attached"]) :
                     (/\ l.module = Top.name
                      /\ l \notin SeqRange(Top.before.registry["rail.module.attached"])) =>
                         l.id \in SeqRange(finished.invoked)
              /\ stack' = Below
              /\ sig'.k = "return" /\ sig'.p = "this"
              /\ modules'[Top.name].attached
      ]_vars

\* attach('m1') has returned the bus; the listener its connect hook
\* registered for 'rail.module.attached' was invoked by the notification
C36_Witness ==
    /\ stack = <<>> /\ top = "attach" /\ sig.k = "return" /\ sig.p = "this"
    /\ finished.event = "rail.module.attached"
    /\ Len(Registry(listeners, arrays)["rail.module.attached"]) = 1
    /\ Registry(listeners, arrays)["rail.module.attached"][1].module = "m1"
    /\ finished.invoked = <<Registry(listeners, arrays)["rail.module.attached"][1].id>>
    /\ modules["m1"].attached

C38_UnsubscribeExact ==
    \A event \in Events : \A id \in 0..MaxListeners :
        LET R == Registry(listeners, arrays)
            once == off(listeners, arrays, stack, event, id)
            R1 == Registry(once.l, once.a)
            twice == off(once.l, once.a, stack, event, id)
            between == on(once.l, once.a, stack, event, "returns", "anonymous",
                          MaxListeners + 1)
            later == off(between.l, between.a, stack, event, id)
        IN  /\ R1 = [R EXCEPT ![event] = SelectSeq(@, LAMBDA x : x.id # id)]
            /\ Len(R[event]) - Len(R1[event]) =
                   (IF \E x \in SeqRange(R[event]) : x.id = id THEN 1 ELSE 0)
            /\ Registry(twice.l, twice.a) = R1
            /\ Registry(later.l, later.a) = Registry(between.l, between.a)

\* on() was called twice for 'e' and off once: the record of the first call
\* is gone, that of the second is left
C38_Witness ==
    /\ stack = <<>> /\ top = "off" /\ sig = Return(1)
    /\ ops = MaxStatsOps - 3
    /\ listenerIdCounter = 2
    /\ \A name \in ModuleNames : ~modules[name].attached
    /\ Ids(Registry(listeners, arrays)["e"]) = <<2>>

C40_EmissionFrame ==
    [][/\ ~(stack = <<>> /\ top' \in {"on", "off"}) =>
              /\ Registry(listeners', arrays') = Registry(listeners, arrays)
              /\ \A e \in Events : (listeners'[e] = 0) = (listeners[e] = 0)
              /\ modules' = modules
       /\ (stack # <<>> /\ stack' = <<>>) => clone' = configured'
      ]_vars

====
